---- MODULE Spec2Model ----
(***************************************************************************)
(* The focus-session panel (JourneyPanel): session lifecycle, heartbeat    *)
(* scheduler, drift state machine and media capture.                       *)
(*                                                                         *)
(* React semantics kept by the model:                                      *)
(*  - `st` holds the useState values, `ref` the useRef values.             *)
(*  - A handler invoked from the UI runs with the values of the latest     *)
(*    render, i.e. the current `st`.                                       *)
(*  - A handler that suspends (await) or is scheduled (setTimeout,         *)
(*    setInterval) keeps the values of the render that created it: the     *)
(*    process records carry that closure (`clos`, `drift`).  Refs and      *)
(*    setters are read and written live.                                   *)
(***************************************************************************)
EXTENDS Integers, Sequences, FiniteSets, Bags, TLC

\* ---------------------------------------------------------------- bounds
MaxSessions == 2      \* session ids the backend issues in one run
MaxStreams == 4       \* media streams the devices hand out in one run
MaxStarts == 2        \* startSailingSession invocations pending at once
MaxInFlight == 1      \* heartbeat requests in flight at once
MaxGrace == 1         \* grace timers pending at once
DeepSessions == 1     \* sessions in the specifications that take one subject in depth
MaxSceneCalls == 1    \* drift scene webhook calls pending at once
MaxTime == 130000     \* horizon of the clock (ms) in the timed specification
AdvanceStep == 4000   \* largest single advance of the clock (ms)
SceneHorizon == 16000 \* the clock's last value in the scene specification (ms)

\* ------------------------------------------------------ program constants
HEARTBEAT_WARMUP_MS == 8000
HEARTBEAT_INTERVAL_MS == 60000
GRACE_PERIOD_MS == 60000
AUTO_START_DELAY_MS == 500
PASSIVE_LISTENING_DELAY_MS == 2000
SCENE_RETRIES == 3
SCENE_RETRY_WAIT_MS == 1000
CAMERA_TIERS == 4

Null == 0             \* null stream / null handle
NoSession == 0        \* currentSessionId = null
DefaultDriftReason == "Focus has drifted from the task"

VARIABLES
  st,             \* useState values of the panel
  ref,            \* useRef values of the panel
  isVisible,      \* the isVisible prop
  streams,        \* the MediaStreams handed out, by id: [kind, live, ended]
  channels,       \* channels subscribed at the realtime client (session ids)
  starts,         \* startSailingSession invocations, by slot; `ended` is history
  ends,           \* the handleEndVoyage invocation in progress
  camOps,         \* the toggleVideo invocation made from the UI
  screenOps,      \* getDisplayMedia requests of toggleScreenShare made from the UI
  intervalTimers, \* setInterval timers of startHeartbeat
  warmupTimers,   \* setTimeout (8 s) timers of startHeartbeat
  hbInFlight,     \* session-heartbeat requests awaiting their response
  graceTimers,    \* setTimeout (60 s) timers of handleContinueWorking
  sceneCalls,     \* triggerSplineDriftScene calls in progress
  passive,        \* passive listening: [on, timers]
  issued,         \* session ids issued by the backend so far
  lastHb,         \* history: the heartbeat response handled last
  lastToggle,     \* history: the way the UI's last toggleVideo call went
  now,            \* the clock (ms); stays 0 in the untimed specification
  timed,          \* TRUE in the timed specification
  lastEval,       \* the last heartbeat evaluation initiated: [kind, t0, at]
  currentUser,    \* auth.getCurrentUser() yields a user
  mounted,        \* the component is mounted
  micOps          \* getUserMedia({audio}) requests of toggleMic under way

vars == <<st, ref, isVisible, streams, channels, starts, ends, camOps, screenOps,
          intervalTimers, warmupTimers, hbInFlight, graceTimers, sceneCalls,
          passive, issued, lastHb, lastToggle, now, timed, lastEval, currentUser,
          mounted, micOps>>

\* ------------------------------------------------------------ initial state
\* useState initial values (lines 79-146)
InitSt ==
  [ selectedTask |-> FALSE, showControlPanel |-> FALSE, showSummaryPanel |-> FALSE,
    summaryData |-> "undefined", isLoadingSummary |-> FALSE,
    showPermissionPanel |-> FALSE,
    currentSessionId |-> NoSession, isSessionActive |-> FALSE,
    sessionStartTime |-> FALSE, sessionError |-> "null",
    hasPermissions |-> FALSE, isStartingSession |-> FALSE,
    isVideoOn |-> FALSE, isScreenSharing |-> FALSE, isMicMuted |-> FALSE,
    videoStream |-> Null, screenStream |-> Null, micStream |-> Null,
    isHeartbeatActive |-> FALSE,
    isDrifting |-> FALSE, driftReason |-> "", isDriftAcknowledged |-> FALSE,
    showSeagullPanel |-> FALSE, seagullMessage |-> "",
    seagullConversationContext |-> "null" ]

\* useRef initial values (lines 103, 116-117, 124)
InitRef ==
  [ realtimeChannelRef |-> NoSession, videoStreamRef |-> Null,
    screenStreamRef |-> Null, heartbeatIntervalRef |-> Null ]

\* The values a startSailingSession invocation reads from its render.
NoClosure ==
  [ selectedTask |-> FALSE, isStartingSession |-> FALSE, isSessionActive |-> FALSE,
    currentSessionId |-> NoSession, isVideoOn |-> FALSE, videoStream |-> Null,
    screenStream |-> Null, isScreenSharing |-> FALSE, isDrifting |-> FALSE ]

Closure(s) ==
  [ selectedTask |-> s.selectedTask, isStartingSession |-> s.isStartingSession,
    isSessionActive |-> s.isSessionActive, currentSessionId |-> s.currentSessionId,
    isVideoOn |-> s.isVideoOn, videoStream |-> s.videoStream,
    screenStream |-> s.screenStream, isScreenSharing |-> s.isScreenSharing,
    isDrifting |-> s.isDrifting ]

IdleStart == [pc |-> "idle", clos |-> NoClosure, sid |-> NoSession, tier |-> 0, due |-> 0,
              ended |-> FALSE]
IdleEnd == [pc |-> "idle", sid |-> NoSession, videoStream |-> Null,
            screenStream |-> Null, micStream |-> Null]
IdleCam == [pc |-> "idle", tier |-> 0]
\* No heartbeat response handled since the user last resumed or a session began.
NoResponse == [was |-> FALSE, is_drifting |-> FALSE, handled |-> FALSE]
\* A stream slot that holds no live stream: never handed out, or all its
\* tracks stopped.  `ended` tells whether the 'ended' listener is registered,
\* `enabled` is the enabled flag of its track.
NoStream == [kind |-> "none", live |-> FALSE, ended |-> FALSE, enabled |-> FALSE]
NoEval == [kind |-> "none", t0 |-> 0, at |-> 0]

InitCommon ==
  /\ st = InitSt
  /\ ref = InitRef
  /\ isVisible = FALSE
  /\ streams = [id \in 1..MaxStreams |-> NoStream]
  /\ channels = {}
  /\ starts = [i \in 1..MaxStarts |-> IdleStart]
  /\ ends = IdleEnd
  /\ camOps = IdleCam
  /\ screenOps = 0
  /\ intervalTimers = {}
  /\ warmupTimers = {}
  /\ hbInFlight = <<>>
  /\ graceTimers = EmptyBag
  /\ sceneCalls = EmptyBag
  /\ passive = [on |-> FALSE, timers |-> EmptyBag]
  /\ issued = 0
  /\ lastHb = NoResponse
  /\ lastToggle = "none"
  /\ now = 0
  /\ lastEval = NoEval
  /\ currentUser = TRUE
  /\ mounted = TRUE
  /\ micOps = 0

Init == InitCommon /\ timed = FALSE

\* A delay of d ms from now: a deadline in the timed specification, and no
\* constraint (the timer may fire at any later step) in the untimed one.
After(d) == IF timed THEN now + d ELSE 0

\* ------------------------------------------------------------------ streams
NewStream(k) == [kind |-> k, live |-> TRUE, ended |-> FALSE, enabled |-> TRUE]

\* stream.getTracks().forEach(track => track.stop())
StopTracks(strs, id) == IF id = Null THEN strs ELSE [strs EXCEPT ![id] = NoStream]

\* The ids some state, ref or closure still holds.
Referenced ==
  {st.videoStream, st.screenStream, st.micStream, ref.videoStreamRef,
   ref.screenStreamRef, ends.videoStream, ends.screenStream, ends.micStream}
    \cup {starts[i].clos.videoStream : i \in 1..MaxStarts}
    \cup {starts[i].clos.screenStream : i \in 1..MaxStarts}

\* The id of the next stream a device hands out: the least id that is neither
\* live nor held anywhere (ids are opaque, so a dead stream's id is reused).
FreeIds == {id \in 1..MaxStreams : ~streams[id].live /\ id \notin Referenced}
CanAllocate == FreeIds # {}
NextId == CHOOSE id \in FreeIds : \A j \in FreeIds : id <= j

\* MediaStream.active
IsActive(strs, id) == id # Null /\ strs[id].live


\* --------------------------------------------------------- panel and props
\* shouldShowJourneyPanel (line 1373)
shouldShowJourneyPanel == isVisible /\ ~st.showControlPanel /\ ~st.showSummaryPanel

\* The parent shows the panel; the visibility effect runs fetchTasks and
\* checkInitialPermissions (lines 204-210, 149-201, 213-249).
OpenPanel(tasksFound, hasMic) ==
  /\ ~isVisible
  /\ isVisible' = TRUE
  /\ st' = [st EXCEPT !.selectedTask = IF tasksFound THEN TRUE ELSE @,
                      !.hasPermissions = hasMic]
  /\ UNCHANGED <<micOps, mounted, currentUser, lastToggle, lastHb, screenOps, ref, streams, channels, starts, ends, camOps, intervalTimers,
                 warmupTimers, hbInFlight, graceTimers, sceneCalls, passive,
                 issued, now, timed, lastEval>>

\* handleStartJourney (lines 1216-1225); the button is rendered with a task
\* selected and disabled while isStartingSession (line 1665).
handleStartJourney ==
  /\ shouldShowJourneyPanel
  /\ st.selectedTask
  /\ ~st.isStartingSession
  /\ st' = [st EXCEPT !.showPermissionPanel = TRUE]
  /\ UNCHANGED <<micOps, mounted, currentUser, lastToggle, lastHb, screenOps, ref, isVisible, streams, channels, starts, ends, camOps,
                 intervalTimers, warmupTimers, hbInFlight, graceTimers,
                 sceneCalls, passive, issued, now, timed, lastEval>>

\* handlePermissionsGranted (lines 360-381): the permission panel reports the
\* essential permissions and may hand over the screen stream it acquired.
PermissionsGrantedState(s, hasEssential, incoming) ==
  LET s1 == [s EXCEPT !.hasPermissions = hasEssential]
      s2 == IF incoming # Null /\ s.screenStream = Null
            THEN [s1 EXCEPT !.screenStream = incoming, !.isScreenSharing = TRUE]
            ELSE s1
  IN IF hasEssential THEN [s2 EXCEPT !.sessionError = "null"] ELSE s2

handlePermissionsGranted(hasEssential, withScreen) ==
  /\ st.showPermissionPanel
  /\ withScreen => CanAllocate
  /\ LET incoming == IF withScreen THEN NextId ELSE Null
     IN /\ streams' = IF withScreen THEN [streams EXCEPT ![NextId] = NewStream("screen")]
                      ELSE streams
        /\ st' = PermissionsGrantedState(st, hasEssential, incoming)
        /\ ref' = IF incoming # Null /\ st.screenStream = Null
                  THEN [ref EXCEPT !.screenStreamRef = incoming] ELSE ref
  /\ UNCHANGED <<micOps, mounted, currentUser, lastToggle, lastHb, screenOps, isVisible, channels, starts, ends, camOps, intervalTimers,
                 warmupTimers, hbInFlight, graceTimers, sceneCalls, passive,
                 issued, now, timed, lastEval>>

\* PermissionPanel onClose (lines 1736-1745): the auto-start test and the
\* 500 ms timer that calls the startSailingSession of this render.
AutoStartGuard(s) == s.hasPermissions /\ ~s.isSessionActive /\ ~s.isStartingSession

FreeStarts == {i \in 1..MaxStarts : starts[i].pc = "idle"}
FirstFreeStart == CHOOSE i \in FreeStarts : \A j \in FreeStarts : i <= j

onClosePermissionPanel ==
  /\ st.showPermissionPanel
  /\ st' = [st EXCEPT !.showPermissionPanel = FALSE]
  /\ IF AutoStartGuard(st)
     THEN /\ FreeStarts # {}
          /\ starts' = [starts EXCEPT ![FirstFreeStart] =
                          [pc |-> "timer", clos |-> Closure(st), sid |-> NoSession,
                           tier |-> 0, due |-> After(AUTO_START_DELAY_MS),
                           ended |-> FALSE]]
     ELSE starts' = starts
  /\ UNCHANGED <<micOps, mounted, currentUser, lastToggle, lastHb, screenOps, ref, isVisible, streams, channels, ends, camOps, intervalTimers,
                 warmupTimers, hbInFlight, graceTimers, sceneCalls, passive,
                 issued, now, timed, lastEval>>

\* ControlPanel onClose (line 1709)
onCloseControlPanel ==
  /\ st.showControlPanel
  /\ st' = [st EXCEPT !.showControlPanel = FALSE]
  /\ UNCHANGED <<micOps, mounted, currentUser, lastToggle, lastHb, screenOps, ref, isVisible, streams, channels, starts, ends, camOps,
                 intervalTimers, warmupTimers, hbInFlight, graceTimers,
                 sceneCalls, passive, issued, now, timed, lastEval>>


\* ------------------------------------------------------- drift scene webhook
\* A triggerSplineDriftScene call in progress: awaiting its fetch, or waiting
\* before the next attempt; retries is the call's parameter.
SceneCall(scene, retries) ==
  [scene |-> scene, retries |-> retries, phase |-> "fetch", due |-> 0]

\* triggerSplineDriftScene, lines 1045-1078: nothing without a user, else the
\* fetch of one attempt.
SceneAttempt(scene, retries) ==
  IF currentUser THEN SetToBag({SceneCall(scene, retries)}) ELSE EmptyBag

\* triggerSplineDriftScene(isDriftingScene) called with the default retries
TriggerScene(calls, scene) == calls (+) SceneAttempt(scene, SCENE_RETRIES)

\* triggerSplineDriftScene trying again while retries > 0
SceneAfterAttemptOnceMore(calls, c, ok) ==
  IF ok \/ c.retries <= 0
  THEN calls (-) SetToBag({c})
  ELSE (calls (-) SetToBag({c}))
         (+) SetToBag({[c EXCEPT !.phase = "wait", !.due = After(SCENE_RETRY_WAIT_MS)]})

\* triggerSplineDriftScene, the attempt's outcome (lines 1080-1094): done on
\* an ok response; on a failure the 1 s wait while retries > 1, else done.
SceneAfterAttempt(calls, c, ok) ==
  IF ok \/ c.retries <= 1
  THEN calls (-) SetToBag({c})
  ELSE (calls (-) SetToBag({c}))
         (+) SetToBag({[c EXCEPT !.phase = "wait", !.due = After(SCENE_RETRY_WAIT_MS)]})

sceneCallResolves(c, ok) ==
  /\ BagIn(c, sceneCalls)
  /\ c.phase = "fetch"
  /\ sceneCalls' = SceneAfterAttempt(sceneCalls, c, ok)
  /\ UNCHANGED <<micOps, mounted, currentUser, lastToggle, lastHb, screenOps, st, ref, isVisible, streams, channels, starts, ends, camOps,
                 intervalTimers, warmupTimers, hbInFlight, graceTimers, passive,
                 issued, now, timed, lastEval>>

\* the 1 s wait is over (line 1089): the recursive call with retries - 1
sceneRetryTimerFires(c) ==
  /\ BagIn(c, sceneCalls)
  /\ c.phase = "wait"
  /\ c.due <= now
  /\ sceneCalls' = (sceneCalls (-) SetToBag({c})) (+) SceneAttempt(c.scene, c.retries - 1)
  /\ UNCHANGED <<micOps, mounted, currentUser, lastToggle, lastHb, screenOps, st, ref, isVisible, streams, channels, starts, ends, camOps,
                 intervalTimers, warmupTimers, hbInFlight, graceTimers, passive,
                 issued, now, timed, lastEval>>

\* auth.getCurrentUser() (line 1045) yields null from now on: the user has
\* signed out, or the auth session has expired.
userSignedOut ==
  /\ currentUser
  /\ currentUser' = FALSE
  /\ UNCHANGED <<micOps, mounted, lastToggle, lastHb, screenOps, st, ref, isVisible, streams, channels, starts, ends, camOps,
                 intervalTimers, warmupTimers, hbInFlight, graceTimers, passive,
                 sceneCalls, issued, now, timed, lastEval>>

\* ------------------------------------------------------------ frame capture
CaptureOutcomes == {"ok", "playRejected", "noContext", "drawFailed", "nullBlob"}

\* captureCameraFrame with a failure escaping its try block
captureCameraFrameRejects(stream, outcome) ==
  IF stream = Null THEN "null"
  ELSE IF outcome = "ok" THEN "blob" ELSE "throw"

\* captureCameraFrame (lines 651-743): null without a stream, null when a step
\* of the capture fails (the try/catch at 658/739), else the encoded frame.
captureCameraFrame(stream, outcome) ==
  IF stream = Null THEN "null"
  ELSE IF outcome = "ok" THEN "blob" ELSE "null"

\* captureScreenFrame (lines 745-822)
captureScreenFrame(stream, outcome) ==
  IF stream = Null THEN "null"
  ELSE IF outcome = "ok" THEN "blob" ELSE "null"

\* ---------------------------------------------------------------- heartbeat
HeartbeatTimer(sessionId, drift, delay) ==
  [sid |-> sessionId, drift |-> drift, due |-> After(delay), t0 |-> now]

\* startHeartbeat without the test of the ref at line 919
startHeartbeatUnguarded(hb, sessionId, drift) ==
  [ ref |-> [hb.ref EXCEPT !.heartbeatIntervalRef = sessionId],
    st |-> [hb.st EXCEPT !.isHeartbeatActive = TRUE],
    warmupTimers |-> hb.warmupTimers \cup
       {[sid |-> sessionId, drift |-> drift, due |-> After(HEARTBEAT_WARMUP_MS), t0 |-> now]},
    intervalTimers |-> hb.intervalTimers \cup
       {[sid |-> sessionId, drift |-> drift, due |-> After(HEARTBEAT_INTERVAL_MS), t0 |-> now]} ]

\* startHeartbeat with the interval set up when the warm-up is over
startHeartbeatChained(hb, sessionId, drift) ==
  IF hb.ref.heartbeatIntervalRef # Null
  THEN hb
  ELSE [ ref |-> [hb.ref EXCEPT !.heartbeatIntervalRef = sessionId],
         st |-> [hb.st EXCEPT !.isHeartbeatActive = TRUE],
         warmupTimers |-> hb.warmupTimers \cup
            {[sid |-> sessionId, drift |-> drift, t0 |-> now,
              due |-> After(HEARTBEAT_WARMUP_MS)]},
         intervalTimers |-> hb.intervalTimers \cup
            {[sid |-> sessionId, drift |-> drift, t0 |-> now,
              due |-> After(HEARTBEAT_WARMUP_MS + HEARTBEAT_INTERVAL_MS)]} ]

\* startHeartbeat (lines 918-932), called with the closure's sendHeartbeat:
\* hb = [ref, st, intervalTimers, warmupTimers].
startHeartbeat(hb, sessionId, drift) ==
  IF hb.ref.heartbeatIntervalRef # Null
  THEN hb
  ELSE [ ref |-> [hb.ref EXCEPT !.heartbeatIntervalRef = sessionId],
         st |-> [hb.st EXCEPT !.isHeartbeatActive = TRUE],
         warmupTimers |-> hb.warmupTimers \cup
            {HeartbeatTimer(sessionId, drift, HEARTBEAT_WARMUP_MS)},
         intervalTimers |-> hb.intervalTimers \cup
            {HeartbeatTimer(sessionId, drift, HEARTBEAT_INTERVAL_MS)} ]

\* stopHeartbeat (lines 935-942): clearInterval of the handle in the ref.
stopHeartbeat(hb) ==
  IF hb.ref.heartbeatIntervalRef # Null
  THEN [ ref |-> [hb.ref EXCEPT !.heartbeatIntervalRef = Null],
         st |-> [hb.st EXCEPT !.isHeartbeatActive = FALSE],
         warmupTimers |-> hb.warmupTimers,
         intervalTimers |-> {t \in hb.intervalTimers :
                               t.sid # hb.ref.heartbeatIntervalRef} ]
  ELSE hb

\* sendHeartbeat sending its request even without a frame
HeartbeatRequestsAlways(reqs, t, cam, scr) ==
  IF cam = "throw" \/ scr = "throw" THEN reqs
  ELSE Append(reqs, [sessionId |-> t.sid, drift |-> t.drift,
                     cameraImage |-> cam, screenImage |-> scr])

\* sendHeartbeat, up to the remote call (lines 835-878): the frames are
\* captured from the refs when the tick fires; no call without a frame.
HeartbeatRequests(reqs, t, cam, scr) ==
  IF cam = "throw" \/ scr = "throw" THEN reqs
  ELSE IF cam = "null" /\ scr = "null" THEN reqs
  ELSE Append(reqs, [sessionId |-> t.sid, drift |-> t.drift,
                     cameraImage |-> cam, screenImage |-> scr])

Evaluation(kind, t) == IF timed THEN [kind |-> kind, t0 |-> t.t0, at |-> now] ELSE lastEval

warmupFires(t, oc, os) ==
  /\ t \in warmupTimers
  /\ t.due <= now
  /\ LET cam == captureCameraFrame(ref.videoStreamRef, oc)
         scr == captureScreenFrame(ref.screenStreamRef, os)
     IN /\ hbInFlight' = HeartbeatRequests(hbInFlight, t, cam, scr)
        /\ Len(hbInFlight') <= MaxInFlight
  /\ warmupTimers' = warmupTimers \ {t}
  /\ lastEval' = Evaluation("warmup", t)
  /\ UNCHANGED <<micOps, mounted, currentUser, lastToggle, lastHb, screenOps, st, ref, isVisible, streams, channels, starts, ends, camOps,
                 intervalTimers, graceTimers, sceneCalls, passive, issued,
                 now, timed>>

\* setInterval: the timer stays and fires again one interval later.
IntervalRearm(t) == [t EXCEPT !.due = IF timed THEN @ + HEARTBEAT_INTERVAL_MS ELSE 0]

intervalFires(t, oc, os) ==
  /\ t \in intervalTimers
  /\ t.due <= now
  /\ LET cam == captureCameraFrame(ref.videoStreamRef, oc)
         scr == captureScreenFrame(ref.screenStreamRef, os)
     IN /\ hbInFlight' = HeartbeatRequests(hbInFlight, t, cam, scr)
        /\ Len(hbInFlight') <= MaxInFlight
  /\ intervalTimers' = (intervalTimers \ {t}) \cup {IntervalRearm(t)}
  /\ lastEval' = Evaluation("interval", t)
  /\ UNCHANGED <<micOps, mounted, currentUser, lastToggle, lastHb, screenOps, st, ref, isVisible, streams, channels, starts, ends, camOps,
                 warmupTimers, graceTimers, sceneCalls, passive, issued,
                 now, timed>>

\* sendHeartbeat, after the remote call (lines 880-915).  `drift` is the
\* isDrifting of the render that created the timer.
\* The call's outcome: result is "error" (an error is returned), "throw" (the
\* call rejects) or "data", with the response's is_drifting and drift_reason.
HeartbeatOutcomes ==
  [result : {"data"}, is_drifting : BOOLEAN, drift_reason : {"", "looking away"}]
    \cup [result : {"error", "throw"}, is_drifting : {FALSE}, drift_reason : {""}]

EntersDrift(drift, data) == data.is_drifting /\ ~drift

\* sendHeartbeat with the else branch at line 900 leaving the drift mode
DriftOnHeartbeatAutoExit(s, drift, data) ==
  IF EntersDrift(drift, data)
  THEN [s EXCEPT !.isDrifting = TRUE,
                 !.driftReason = IF data.drift_reason = "" THEN DefaultDriftReason
                                 ELSE data.drift_reason,
                 !.isDriftAcknowledged = FALSE]
  ELSE IF ~data.is_drifting THEN [s EXCEPT !.isDrifting = FALSE] ELSE s

DriftOnHeartbeat(s, drift, data) ==
  IF EntersDrift(drift, data)
  THEN [s EXCEPT !.isDrifting = TRUE,
                 !.driftReason = IF data.drift_reason = "" THEN DefaultDriftReason
                                 ELSE data.drift_reason,
                 !.isDriftAcknowledged = FALSE]
  ELSE s

RemoveAt(q, i) == SubSeq(q, 1, i - 1) \o SubSeq(q, i + 1, Len(q))

\* sendHeartbeat clearing the interval when the call fails
heartbeatResolvesStopsTimer(i, outcome) ==
  /\ i \in 1..Len(hbInFlight)
  /\ hbInFlight' = RemoveAt(hbInFlight, i)
  /\ IF outcome.result = "data"
     THEN /\ st' = DriftOnHeartbeat(st, hbInFlight[i].drift, outcome)
          /\ sceneCalls' = IF EntersDrift(hbInFlight[i].drift, outcome)
                           THEN TriggerScene(sceneCalls, "drift") ELSE sceneCalls
          /\ BagCardinality(sceneCalls') <= MaxSceneCalls
     ELSE UNCHANGED <<st, sceneCalls>>
  /\ intervalTimers' = IF outcome.result = "data" THEN intervalTimers ELSE {}
  /\ lastHb' = IF outcome.result = "data"
               THEN [was |-> st.isDrifting, is_drifting |-> outcome.is_drifting,
                     handled |-> TRUE]
               ELSE lastHb
  /\ UNCHANGED <<micOps, mounted, currentUser, lastToggle, screenOps, ref, isVisible, streams, channels, starts, ends, camOps,
                 warmupTimers, graceTimers, passive, issued,
                 now, timed, lastEval>>

\* sendHeartbeat, the remote call's outcome (lines 880-914), handled with the
\* isDrifting of the render that set the timer.
heartbeatResolves(i, outcome) ==
  /\ i \in 1..Len(hbInFlight)
  /\ hbInFlight' = RemoveAt(hbInFlight, i)
  /\ IF outcome.result = "data"
     THEN /\ st' = DriftOnHeartbeat(st, hbInFlight[i].drift, outcome)
          /\ sceneCalls' = IF EntersDrift(hbInFlight[i].drift, outcome)
                           THEN TriggerScene(sceneCalls, "drift") ELSE sceneCalls
          /\ BagCardinality(sceneCalls') <= MaxSceneCalls
     ELSE UNCHANGED <<st, sceneCalls>>
  /\ lastHb' = IF outcome.result = "data"
               THEN [was |-> st.isDrifting, is_drifting |-> outcome.is_drifting,
                     handled |-> TRUE]
               ELSE lastHb
  /\ UNCHANGED <<micOps, mounted, currentUser, lastToggle, screenOps, ref, isVisible, streams, channels, starts, ends, camOps,
                 intervalTimers, warmupTimers, graceTimers, passive, issued,
                 now, timed, lastEval>>

\* ------------------------------------------------------------ manual recovery
\* handleContinueWorking with a grace timer of half the delay
GraceTimerHalf(delay) == [due |-> After(delay \div 2), t0 |-> now]

\* handleContinueWorking (lines 1098-1111), the ControlPanel's button.
\* The timer it sets: its deadline, and the time of the call that set it.
GraceTimer(delay) == [due |-> After(delay), t0 |-> now]

ContinueWorkingState(s) == [s EXCEPT !.isDriftAcknowledged = TRUE, !.isDrifting = FALSE]

handleContinueWorking ==
  /\ st.showControlPanel
  /\ st' = ContinueWorkingState(st)
  /\ sceneCalls' = TriggerScene(sceneCalls, "sailing")
  /\ BagCardinality(sceneCalls') <= MaxSceneCalls
  /\ graceTimers' = graceTimers (+) SetToBag({GraceTimer(GRACE_PERIOD_MS)})
  /\ BagCardinality(graceTimers') <= MaxGrace
  /\ lastHb' = NoResponse
  /\ UNCHANGED <<micOps, mounted, currentUser, lastToggle, screenOps, ref, isVisible, streams, channels, starts, ends, camOps,
                 intervalTimers, warmupTimers, hbInFlight, passive, issued,
                 now, timed, lastEval>>

\* the grace timer's callback (lines 1107-1110)
graceTimerFires(g) ==
  /\ BagIn(g, graceTimers)
  /\ g.due <= now
  /\ graceTimers' = graceTimers (-) SetToBag({g})
  /\ st' = [st EXCEPT !.isDriftAcknowledged = FALSE]
  /\ UNCHANGED <<micOps, mounted, currentUser, lastToggle, lastHb, screenOps, ref, isVisible, streams, channels, starts, ends, camOps,
                 intervalTimers, warmupTimers, hbInFlight, sceneCalls, passive,
                 issued, now, timed, lastEval>>

\* DriftNotification onContinueWorking (lines 1787-1791)
dismissDriftNotification ==
  /\ st.isDrifting /\ ~st.isDriftAcknowledged
  /\ st' = [st EXCEPT !.isDriftAcknowledged = TRUE]
  /\ UNCHANGED <<micOps, mounted, currentUser, lastToggle, lastHb, screenOps, ref, isVisible, streams, channels, starts, ends, camOps,
                 intervalTimers, warmupTimers, hbInFlight, graceTimers,
                 sceneCalls, passive, issued, now, timed, lastEval>>


\* ---------------------------------------------------------- realtime channel
\* setupRealtimeChannel without the removal of lines 946-948
setupRealtimeChannelKeepsOld(ch, sessionId) ==
  [ channels |-> ch.channels \cup {sessionId},
    ref |-> [ch.ref EXCEPT !.realtimeChannelRef = sessionId] ]

\* setupRealtimeChannel (lines 945-1003): ch = [ref, channels]
setupRealtimeChannel(ch, sessionId) ==
  [ channels |-> (IF ch.ref.realtimeChannelRef # NoSession
                  THEN ch.channels \ {ch.ref.realtimeChannelRef}
                  ELSE ch.channels) \cup {sessionId},
    ref |-> [ch.ref EXCEPT !.realtimeChannelRef = sessionId] ]

\* cleanupRealtimeChannel (lines 1006-1011)
cleanupRealtimeChannel(ch) ==
  IF ch.ref.realtimeChannelRef # NoSession
  THEN [ channels |-> ch.channels \ {ch.ref.realtimeChannelRef},
         ref |-> [ch.ref EXCEPT !.realtimeChannelRef = NoSession] ]
  ELSE ch

\* the session_ended handler clearing isSessionActive alone
SessionEndedStateKeepsId(s) == [s EXCEPT !.isSessionActive = FALSE]

\* the session_ended broadcast handler (lines 957-961)
SessionEndedState(s) == [s EXCEPT !.isSessionActive = FALSE, !.currentSessionId = NoSession]

\* A session_ended event for session c has reached the startSailingSession
\* invocations that are starting session c (history).
EndedWhileStarting(ss, c) ==
  [i \in 1..MaxStarts |-> IF ss[i].sid = c THEN [ss[i] EXCEPT !.ended = TRUE] ELSE ss[i]]

sessionEndedEvent(c) ==
  /\ c \in channels
  /\ st' = SessionEndedState(st)
  /\ starts' = EndedWhileStarting(starts, c)
  /\ UNCHANGED <<micOps, mounted, currentUser, lastToggle, lastHb, screenOps, ref, isVisible, streams, channels, ends, camOps,
                 intervalTimers, warmupTimers, hbInFlight, graceTimers,
                 sceneCalls, passive, issued, now, timed, lastEval>>

\* the deep_drift_detected broadcast handler (lines 962-997).  The payload's
\* message is "" when the payload carries none; the audio it may play is no
\* state of the panel.
DefaultInterventionMessage == "Captain, I've noticed you've been drifting"
InterventionMessages == {"", "Back to the task, captain"}

\* the deep_drift_detected handler entering the drift mode as well
DeepDriftStateEntersDrift(s, message) ==
  [s EXCEPT !.seagullMessage = IF message = "" THEN DefaultInterventionMessage
                               ELSE message,
            !.seagullConversationContext = "drift_intervention",
            !.showSeagullPanel = TRUE,
            !.isDrifting = TRUE]

DeepDriftState(s, message) ==
  [s EXCEPT !.seagullMessage = IF message = "" THEN DefaultInterventionMessage
                               ELSE message,
            !.seagullConversationContext = "drift_intervention",
            !.showSeagullPanel = TRUE]

deepDriftEvent(c, message) ==
  /\ c \in channels
  /\ st' = DeepDriftState(st, message)
  /\ UNCHANGED <<micOps, mounted, currentUser, lastToggle, lastHb, screenOps, ref, isVisible, streams, channels, starts, ends, camOps,
                 intervalTimers, warmupTimers, hbInFlight, graceTimers,
                 sceneCalls, passive, issued, now, timed, lastEval>>

\* SeagullPanel onClose (lines 1771-1775)
onCloseSeagullPanel ==
  /\ st.showSeagullPanel
  /\ st' = [st EXCEPT !.showSeagullPanel = FALSE, !.seagullMessage = "",
                      !.seagullConversationContext = "null"]
  /\ UNCHANGED <<micOps, mounted, currentUser, lastToggle, lastHb, screenOps, ref, isVisible, streams, channels, starts, ends, camOps,
                 intervalTimers, warmupTimers, hbInFlight, graceTimers,
                 sceneCalls, passive, issued, now, timed, lastEval>>

\* ------------------------------------------------------------ media streams
\* cleanupMediaStreams (lines 620-646); c holds the videoStream, screenStream
\* and micStream of the render the caller was created in.
CleanupMediaTracks(strs, c) ==
  StopTracks(StopTracks(StopTracks(strs, c.videoStream), c.screenStream), c.micStream)

CleanupMediaState(s, c) ==
  [s EXCEPT !.videoStream = IF c.videoStream # Null THEN Null ELSE @,
            !.isVideoOn = IF c.videoStream # Null THEN FALSE ELSE @,
            !.screenStream = IF c.screenStream # Null THEN Null ELSE @,
            !.isScreenSharing = IF c.screenStream # Null THEN FALSE ELSE @,
            !.micStream = IF c.micStream # Null THEN Null ELSE @,
            !.isMicMuted = IF c.micStream # Null THEN FALSE ELSE @]

\* cleanupMediaStreams leaving the refs as they are
CleanupMediaRefsKept(r, c) == r

CleanupMediaRefs(r, c) ==
  [r EXCEPT !.videoStreamRef = IF c.videoStream # Null THEN Null ELSE @,
            !.screenStreamRef = IF c.screenStream # Null THEN Null ELSE @]

\* toggleVideo with the duplicate guard of line 399 tested first
ToggleVideoEntryGuardFirst(isVideoOn, videoStream, strs) ==
  IF IsActive(strs, videoStream) THEN "skip"
  ELSE IF isVideoOn /\ videoStream # Null THEN "off"
  ELSE "acquire"

\* toggleVideo, its synchronous prefix (lines 384-422): which way the call goes
ToggleVideoEntry(isVideoOn, videoStream, strs) ==
  IF isVideoOn /\ videoStream # Null THEN "off"
  ELSE IF IsActive(strs, videoStream) THEN "skip"
  ELSE "acquire"

\* toggleVideo, turning the camera off (lines 386-397)
VideoOffState(s) == [s EXCEPT !.videoStream = Null, !.isVideoOn = FALSE]

\* getUserMedia({video}) outcomes: a stream whose track is live or not, or an error
CameraOutcomes == {"live", "notLive", "NotAllowedError", "PermissionDeniedError",
                   "NotFoundError", "NotReadableError", "OverconstrainedError",
                   "OtherError"}

\* toggleVideo going on to the next tier after a permission denial
CameraStepRetriesDenial(outcome, tier) ==
  IF outcome = "live" THEN "success"
  ELSE IF outcome = "notLive" THEN "fail"
  ELSE IF tier < CAMERA_TIERS THEN "next"
  ELSE "fail"

\* toggleVideo, the tier loop and the liveness test (lines 458-506)
CameraStep(outcome, tier) ==
  IF outcome = "live" THEN "success"
  ELSE IF outcome = "notLive" THEN "fail"
  ELSE IF outcome \in {"NotAllowedError", "PermissionDeniedError"} THEN "fail"
  ELSE IF tier < CAMERA_TIERS THEN "next"
  ELSE "fail"

\* toggleVideo, the error text (lines 523-541)
CameraErrorText(outcome) ==
  IF outcome \in {"NotAllowedError", "PermissionDeniedError"} THEN "camera: permission"
  ELSE IF outcome = "NotFoundError" THEN "camera: not found"
  ELSE IF outcome = "NotReadableError" THEN "camera: unavailable"
  ELSE IF outcome = "OverconstrainedError" THEN "camera: overconstrained"
  ELSE IF outcome = "notLive" THEN "camera: check settings (Camera stream is not live)"
  ELSE "camera: check settings"

\* toggleVideo storing the stream in the state alone
CameraResultRefUnset(r, outcome, tier, id) ==
  IF CameraStep(outcome, tier) = "fail" THEN [r EXCEPT !.videoStreamRef = Null]
  ELSE r

\* toggleVideo, success (lines 508-514) and the catch block (lines 541-549)
CameraResultState(s, outcome, tier, id) ==
  IF CameraStep(outcome, tier) = "success"
  THEN [s EXCEPT !.videoStream = id, !.isVideoOn = TRUE]
  ELSE IF CameraStep(outcome, tier) = "fail"
  THEN [s EXCEPT !.sessionError = CameraErrorText(outcome),
                 !.isVideoOn = FALSE, !.videoStream = Null]
  ELSE s

CameraResultRef(r, outcome, tier, id) ==
  IF CameraStep(outcome, tier) = "success" THEN [r EXCEPT !.videoStreamRef = id]
  ELSE IF CameraStep(outcome, tier) = "fail" THEN [r EXCEPT !.videoStreamRef = Null]
  ELSE r

\* toggleVideo without the stop of line 504
CameraResultStreamsNoStop(strs, outcome, id) ==
  IF outcome \in {"live", "notLive"} THEN [strs EXCEPT ![id] = NewStream("camera")]
  ELSE strs

\* a stream that fails the liveness test is stopped at once (line 504)
CameraResultStreams(strs, outcome, id) ==
  IF outcome = "live" THEN [strs EXCEPT ![id] = NewStream("camera")]
  ELSE IF outcome = "notLive" THEN StopTracks([strs EXCEPT ![id] = NewStream("camera")], id)
  ELSE strs

\* startSailingSession, after the camera step (lines 1168-1186): the screen
\* share of the permission flow is enabled, then the start animation is called
AfterCameraPc(c) ==
  IF c.screenStream # Null /\ ~c.isScreenSharing THEN "awaitScreen" ELSE "awaitAnim"

\* toggleVideo invoked from the ControlPanel or the camera preview
\* (lines 1721, 1754), with the values of the current render.
toggleVideo ==
  /\ st.showControlPanel \/ st.isVideoOn
  /\ LET way == ToggleVideoEntry(st.isVideoOn, st.videoStream, streams)
     IN IF way = "off"
        THEN /\ streams' = StopTracks(streams, st.videoStream)
             /\ st' = VideoOffState(st)
             /\ ref' = [ref EXCEPT !.videoStreamRef = Null]
             /\ UNCHANGED camOps
        ELSE IF way = "skip"
        THEN UNCHANGED <<streams, st, ref, camOps>>
        ELSE /\ camOps.pc = "idle"
             /\ streams' = StopTracks(streams, st.videoStream)
             /\ camOps' = [pc |-> "tvDelay", tier |-> 0]
             /\ UNCHANGED <<st, ref>>
  /\ lastToggle' = ToggleVideoEntry(st.isVideoOn, st.videoStream, streams)
  /\ UNCHANGED <<micOps, mounted, currentUser, lastHb, screenOps, isVisible, channels, starts, ends, intervalTimers, warmupTimers,
                 hbInFlight, graceTimers, sceneCalls, passive, issued, now,
                 timed, lastEval>>

\* The owner of a toggleVideo in progress: 0 is the UI's call, i > 0 the call
\* made by startSailingSession invocation i (line 1155).
CamOwners == 0..MaxStarts
CamPc(o) == IF o = 0 THEN camOps.pc ELSE starts[o].pc
CamTier(o) == IF o = 0 THEN camOps.tier ELSE starts[o].tier

\* the 100 ms settling delay is over: the first getUserMedia is issued
cameraDelayDone(o) ==
  /\ o \in CamOwners
  /\ CamPc(o) = "tvDelay"
  /\ IF o = 0
     THEN camOps' = [pc |-> "tvTier", tier |-> 1] /\ UNCHANGED starts
     ELSE starts' = [starts EXCEPT ![o].pc = "tvTier", ![o].tier = 1] /\ UNCHANGED camOps
  /\ UNCHANGED <<micOps, mounted, currentUser, lastToggle, lastHb, screenOps, st, ref, isVisible, streams, channels, ends, intervalTimers,
                 warmupTimers, hbInFlight, graceTimers, sceneCalls, passive,
                 issued, now, timed, lastEval>>

\* getUserMedia({video: tier}) resolves or rejects (lines 467-550)
cameraRequestResolves(o, outcome) ==
  /\ o \in CamOwners
  /\ CamPc(o) = "tvTier"
  /\ outcome \in {"live", "notLive"} => CanAllocate
  /\ LET tier == CamTier(o)
         id == IF outcome \in {"live", "notLive"} THEN NextId ELSE Null
         step == CameraStep(outcome, tier)
     IN /\ streams' = CameraResultStreams(streams, outcome, id)
        /\ st' = CameraResultState(st, outcome, tier, id)
        /\ ref' = CameraResultRef(ref, outcome, tier, id)
        /\ IF o = 0
           THEN /\ camOps' = IF step = "next" THEN [pc |-> "tvTier", tier |-> tier + 1]
                             ELSE IdleCam
                /\ UNCHANGED starts
           ELSE /\ starts' = IF step = "next" THEN [starts EXCEPT ![o].tier = tier + 1]
                             ELSE [starts EXCEPT ![o].pc = AfterCameraPc(starts[o].clos),
                                                 ![o].tier = 0]
                /\ UNCHANGED camOps
  /\ UNCHANGED <<micOps, mounted, currentUser, lastToggle, lastHb, screenOps, isVisible, channels, ends, intervalTimers, warmupTimers,
                 hbInFlight, graceTimers, sceneCalls, passive, issued, now,
                 timed, lastEval>>


\* --------------------------------------------------------------- screen share
\* toggleScreenShare (lines 553-594), its synchronous prefix
ToggleScreenEntry(isScreenSharing, screenStream) ==
  IF isScreenSharing /\ screenStream # Null THEN "off" ELSE "acquire"

ScreenOffState(s) == [s EXCEPT !.screenStream = Null, !.isScreenSharing = FALSE]

toggleScreenShare ==
  /\ st.showControlPanel \/ st.isScreenSharing
  /\ IF ToggleScreenEntry(st.isScreenSharing, st.screenStream) = "off"
     THEN /\ streams' = StopTracks(streams, st.screenStream)
          /\ st' = ScreenOffState(st)
          /\ ref' = [ref EXCEPT !.screenStreamRef = Null]
          /\ UNCHANGED screenOps
     ELSE /\ screenOps = 0
          /\ screenOps' = 1
          /\ UNCHANGED <<streams, st, ref>>
  /\ UNCHANGED <<micOps, mounted, currentUser, lastToggle, lastHb, isVisible, channels, starts, ends, camOps, intervalTimers,
                 warmupTimers, hbInFlight, graceTimers, sceneCalls, passive,
                 issued, now, timed, lastEval>>

\* getDisplayMedia resolves (lines 567-588) or rejects (lines 590-593); owner 0
\* is the UI's call, i > 0 the call of startSailingSession i (line 1173).
ScreenOwners == 0..MaxStarts
ScreenPending(o) == IF o = 0 THEN screenOps > 0 ELSE starts[o].pc = "awaitScreen"

ScreenResultState(s, granted, id) ==
  IF granted THEN [s EXCEPT !.screenStream = id, !.isScreenSharing = TRUE]
  ELSE [s EXCEPT !.sessionError = "screen share failed"]

screenRequestResolves(o, granted) ==
  /\ o \in ScreenOwners
  /\ ScreenPending(o)
  /\ granted => CanAllocate
  /\ LET id == IF granted THEN NextId ELSE Null
     IN /\ streams' = IF granted
                      THEN [streams EXCEPT ![id] = [NewStream("screen") EXCEPT !.ended = TRUE]]
                      ELSE streams
        /\ st' = ScreenResultState(st, granted, id)
        /\ ref' = IF granted THEN [ref EXCEPT !.screenStreamRef = id] ELSE ref
  /\ IF o = 0
     THEN screenOps' = 0 /\ UNCHANGED starts
     ELSE starts' = [starts EXCEPT ![o].pc = "awaitAnim"] /\ UNCHANGED screenOps
  /\ UNCHANGED <<micOps, mounted, currentUser, lastToggle, lastHb, isVisible, channels, ends, camOps, intervalTimers, warmupTimers,
                 hbInFlight, graceTimers, sceneCalls, passive, issued, now,
                 timed, lastEval>>

\* The user stops sharing through the browser's own control: the track ends,
\* and the 'ended' listener of lines 579-586, where registered, clears state.
screenTrackEnded(id) ==
  /\ id \in 1..MaxStreams
  /\ streams[id].kind = "screen" /\ streams[id].live
  /\ streams' = StopTracks(streams, id)
  /\ IF streams[id].ended
     THEN st' = ScreenOffState(st) /\ ref' = [ref EXCEPT !.screenStreamRef = Null]
     ELSE UNCHANGED <<st, ref>>
  /\ UNCHANGED <<micOps, mounted, currentUser, lastToggle, lastHb, isVisible, channels, starts, ends, camOps, screenOps,
                 intervalTimers, warmupTimers, hbInFlight, graceTimers,
                 sceneCalls, passive, issued, now, timed, lastEval>>


\* ----------------------------------------------------------------- microphone
\* toggleMic setting the flag without touching the track
ToggleMicTrackUntouched(strs, micStream, isMicMuted) == strs

\* toggleMic with a stream held (lines 605-611): audioTrack.enabled = isMicMuted
ToggleMicTrack(strs, micStream, isMicMuted) ==
  [strs EXCEPT ![micStream].enabled = isMicMuted]

ToggleMicState(s) == [s EXCEPT !.isMicMuted = ~s.isMicMuted]

MaxMicOps == 1

\* toggleMic invoked from the ControlPanel (line 1720), with the values of the
\* current render: without a stream the device is asked, with one the track's
\* flag and isMicMuted are flipped.
toggleMic ==
  /\ st.showControlPanel
  /\ IF st.micStream = Null
     THEN /\ micOps < MaxMicOps
          /\ micOps' = micOps + 1
          /\ UNCHANGED <<streams, st>>
     ELSE /\ streams' = ToggleMicTrack(streams, st.micStream, st.isMicMuted)
          /\ st' = ToggleMicState(st)
          /\ UNCHANGED micOps
  /\ UNCHANGED <<mounted, currentUser, lastToggle, lastHb, ref, isVisible, channels, starts, ends, camOps,
                 screenOps, intervalTimers, warmupTimers, hbInFlight, graceTimers,
                 sceneCalls, passive, issued, now, timed, lastEval>>

\* getUserMedia({audio}) of toggleMic resolves or rejects (lines 599-602, 613-616)
micRequestResolves(granted) ==
  /\ micOps > 0
  /\ micOps' = micOps - 1
  /\ granted => CanAllocate
  /\ streams' = IF granted THEN [streams EXCEPT ![NextId] = NewStream("microphone")]
                 ELSE streams
  /\ st' = IF granted
           THEN [st EXCEPT !.micStream = NextId, !.isMicMuted = FALSE]
           ELSE [st EXCEPT !.sessionError = "microphone: permission"]
  /\ UNCHANGED <<mounted, currentUser, lastToggle, lastHb, ref, isVisible, channels, starts, ends, camOps,
                 screenOps, intervalTimers, warmupTimers, hbInFlight, graceTimers,
                 sceneCalls, passive, issued, now, timed, lastEval>>

\* ------------------------------------------------------------- session start
\* startSailingSession, the guard (lines 1115-1124), on the closure's values
StartGuard(c) == c.isStartingSession \/ c.isSessionActive \/ c.currentSessionId # NoSession

\* The 500 ms timer of the permission panel's onClose fires: startSailingSession
\* runs up to its first await, auth.startSession (lines 1114-1132).
startSailingSession(i) ==
  /\ starts[i].pc = "timer"
  /\ starts[i].due <= now
  /\ IF ~starts[i].clos.selectedTask \/ StartGuard(starts[i].clos)
     THEN /\ starts' = [starts EXCEPT ![i] = IdleStart]
          /\ UNCHANGED st
     ELSE /\ starts' = [starts EXCEPT ![i].pc = "awaitStart", ![i].due = 0]
          /\ st' = [st EXCEPT !.isStartingSession = TRUE, !.sessionError = "null"]
  /\ UNCHANGED <<micOps, mounted, currentUser, lastToggle, lastHb, ref, isVisible, streams, channels, ends, camOps, screenOps,
                 intervalTimers, warmupTimers, hbInFlight, graceTimers,
                 sceneCalls, passive, issued, now, timed, lastEval>>

\* startSailingSession without its finally block
StartFailedStateNoFinally(s) ==
  [s EXCEPT !.sessionError = "start failed", !.isSessionActive = FALSE,
            !.currentSessionId = NoSession]

\* startSailingSession, the catch and finally blocks (lines 1205-1212)
StartFailedState(s) ==
  [s EXCEPT !.sessionError = "start failed", !.isSessionActive = FALSE,
            !.currentSessionId = NoSession, !.isStartingSession = FALSE]

\* auth.startSession resolves with a new session id, and the channel is set up
\* and the microphone requested (lines 1132-1140); or it throws.
startSessionResolves(i, ok) ==
  /\ starts[i].pc = "awaitStart"
  /\ IF ok
     THEN /\ issued < MaxSessions
          /\ issued' = issued + 1
          /\ LET ch == setupRealtimeChannel([ref |-> ref, channels |-> channels], issued + 1)
             IN ref' = ch.ref /\ channels' = ch.channels
          /\ starts' = [starts EXCEPT ![i].pc = "awaitMic", ![i].sid = issued + 1]
          /\ UNCHANGED st
     ELSE /\ st' = StartFailedState(st)
          /\ starts' = [starts EXCEPT ![i] = IdleStart]
          /\ UNCHANGED <<issued, ref, channels>>
  /\ UNCHANGED <<micOps, mounted, currentUser, lastToggle, lastHb, isVisible, streams, ends, camOps, screenOps, intervalTimers,
                 warmupTimers, hbInFlight, graceTimers, sceneCalls, passive,
                 now, timed, lastEval>>

\* setupRealtimeChannel throws after auth.startSession has answered (lines
\* 1132-1135): the session exists at the backend, and the catch block runs.
\* The throw comes before the old subscription is removed, or after it
\* (`removed`); the ref is assigned last (line 1002) and keeps its value.
channelSetupThrows(i, removed) ==
  /\ starts[i].pc = "awaitStart"
  /\ issued < MaxSessions
  /\ issued' = issued + 1
  /\ channels' = IF removed /\ ref.realtimeChannelRef # NoSession
                  THEN channels \ {ref.realtimeChannelRef} ELSE channels
  /\ st' = StartFailedState(st)
  /\ starts' = [starts EXCEPT ![i] = IdleStart]
  /\ UNCHANGED <<micOps, mounted, currentUser, lastToggle, lastHb, ref, isVisible, streams, ends, camOps, screenOps,
                 intervalTimers, warmupTimers, hbInFlight, graceTimers,
                 sceneCalls, passive, now, timed, lastEval>>

\* startSailingSession, the camera step (lines 1149-1166): toggleVideo of the
\* same render is called when that render has no camera.
AfterMicPc(c, strs) ==
  IF ~c.isVideoOn /\ c.videoStream = Null
  THEN IF ToggleVideoEntry(c.isVideoOn, c.videoStream, strs) = "acquire"
       THEN "tvDelay" ELSE AfterCameraPc(c)
  ELSE AfterCameraPc(c)

\* startSailingSession with the microphone's rejection left to the outer catch
sessionMicResolvesStrict(i, granted) ==
  /\ starts[i].pc = "awaitMic"
  /\ granted => CanAllocate
  /\ streams' = IF granted THEN [streams EXCEPT ![NextId] = NewStream("microphone")]
                 ELSE streams
  /\ st' = IF granted
           THEN [st EXCEPT !.micStream = NextId, !.isMicMuted = FALSE]
           ELSE StartFailedState(st)
  /\ starts' = IF granted
               THEN [starts EXCEPT ![i].pc = AfterMicPc(starts[i].clos, streams)]
               ELSE [starts EXCEPT ![i] = IdleStart]
  /\ UNCHANGED <<micOps, mounted, currentUser, lastToggle, lastHb, ref, isVisible, channels, ends, camOps, screenOps,
                 intervalTimers, warmupTimers, hbInFlight, graceTimers,
                 sceneCalls, passive, issued, now, timed, lastEval>>

\* getUserMedia({audio}) of the session resolves or rejects (lines 1139-1147)
sessionMicResolves(i, granted) ==
  /\ starts[i].pc = "awaitMic"
  /\ granted => CanAllocate
  /\ streams' = IF granted THEN [streams EXCEPT ![NextId] = NewStream("microphone")]
                 ELSE streams
  /\ st' = IF granted
           THEN [st EXCEPT !.micStream = NextId, !.isMicMuted = FALSE]
           ELSE st
  /\ starts' = [starts EXCEPT ![i].pc = AfterMicPc(starts[i].clos, streams)]
  /\ UNCHANGED <<micOps, mounted, currentUser, lastToggle, lastHb, ref, isVisible, channels, ends, camOps, screenOps,
                 intervalTimers, warmupTimers, hbInFlight, graceTimers,
                 sceneCalls, passive, issued, now, timed, lastEval>>

\* startSailingSession starting the heartbeat without marking the session active
SessionActiveStateNotMarked(s, sessionId) ==
  [s EXCEPT !.currentSessionId = sessionId, !.sessionStartTime = TRUE]

\* startSailingSession, steps 5 to 8 and finally (lines 1188-1203, 1211)
SessionActiveState(s, sessionId) ==
  [s EXCEPT !.currentSessionId = sessionId, !.isSessionActive = TRUE,
            !.sessionStartTime = TRUE]

\* triggerSplineSessionAnimation('start') has settled, whatever its outcome
\* (lines 1014-1040): the session is marked active and the heartbeat started.
startAnimationResolves(i) ==
  /\ starts[i].pc = "awaitAnim"
  /\ LET hb == startHeartbeat(
                 [ref |-> ref, st |-> SessionActiveState(st, starts[i].sid),
                  intervalTimers |-> intervalTimers, warmupTimers |-> warmupTimers],
                 starts[i].sid, starts[i].clos.isDrifting)
     IN /\ st' = [hb.st EXCEPT !.showControlPanel = TRUE, !.isStartingSession = FALSE]
        /\ ref' = hb.ref
        /\ intervalTimers' = hb.intervalTimers
        /\ warmupTimers' = hb.warmupTimers
  /\ passive' = [passive EXCEPT !.timers = @ (+) SetToBag({After(PASSIVE_LISTENING_DELAY_MS)})]
  /\ isVisible' = FALSE
  /\ starts' = [starts EXCEPT ![i] = IdleStart]
  /\ lastHb' = NoResponse
  /\ UNCHANGED <<micOps, mounted, currentUser, lastToggle, streams, channels, ends, camOps, screenOps, hbInFlight,
                 graceTimers, sceneCalls, issued, now, timed, lastEval>>

\* the 2 s timer calls startPassiveListening (lines 1197-1199)
passiveTimerFires(due) ==
  /\ BagIn(due, passive.timers)
  /\ due <= now
  /\ passive' = [on |-> TRUE, timers |-> passive.timers (-) SetToBag({due})]
  /\ UNCHANGED <<micOps, mounted, currentUser, lastToggle, lastHb, st, ref, isVisible, streams, channels, starts, ends, camOps,
                 screenOps, intervalTimers, warmupTimers, hbInFlight,
                 graceTimers, sceneCalls, issued, now, timed, lastEval>>

\* --------------------------------------------------------------- session end
\* handleEndVoyage without its guard
EndGuardAbsent(s) == FALSE

\* handleEndVoyage, the guard (lines 1230-1234)
EndGuard(s) == s.currentSessionId = NoSession

\* handleEndVoyage clearing the session id alone
EndingStateKeepsActive(s) ==
  [s EXCEPT !.sessionError = "null", !.currentSessionId = NoSession,
            !.isStartingSession = FALSE,
            !.showControlPanel = FALSE, !.showSummaryPanel = TRUE,
            !.isLoadingSummary = TRUE]

\* handleEndVoyage, lines 1237-1248
EndingState(s) ==
  [s EXCEPT !.sessionError = "null", !.currentSessionId = NoSession,
            !.isSessionActive = FALSE, !.isStartingSession = FALSE,
            !.showControlPanel = FALSE, !.showSummaryPanel = TRUE,
            !.isLoadingSummary = TRUE]

\* handleEndVoyage invoked from the ControlPanel (line 1710), up to the
\* session-end request
handleEndVoyage ==
  /\ st.showControlPanel
  /\ IF EndGuard(st)
     THEN /\ st' = [st EXCEPT !.sessionError = "No active session found"]
          /\ UNCHANGED ends
     ELSE /\ ends.pc = "idle"
          /\ st' = EndingState(st)
          /\ ends' = [pc |-> "awaitEnd", sid |-> st.currentSessionId,
                      videoStream |-> st.videoStream,
                      screenStream |-> st.screenStream, micStream |-> st.micStream]
  /\ UNCHANGED <<micOps, mounted, currentUser, lastToggle, lastHb, ref, isVisible, streams, channels, starts, camOps, screenOps,
                 intervalTimers, warmupTimers, hbInFlight, graceTimers,
                 sceneCalls, passive, issued, now, timed, lastEval>>

\* handleEndVoyage with a catch block that sets no fallback summary
EndFailedStateNoFallback(s) ==
  [s EXCEPT !.sessionError = "end failed", !.sessionStartTime = FALSE,
            !.isLoadingSummary = FALSE]

\* handleEndVoyage, the catch and finally blocks (lines 1346-1360)
EndFailedState(s) ==
  [s EXCEPT !.sessionError = "end failed", !.summaryData = "fallback",
            !.sessionStartTime = FALSE, !.isLoadingSummary = FALSE]

FetchOutcomes == {"ok", "notOk", "throw"}

\* the session-end request settles (lines 1254-1273)
sessionEndResolves(outcome) ==
  /\ ends.pc = "awaitEnd"
  /\ IF outcome = "ok"
     THEN ends' = [ends EXCEPT !.pc = "awaitAnim"] /\ UNCHANGED st
     ELSE ends' = IdleEnd /\ st' = EndFailedState(st)
  /\ UNCHANGED <<micOps, mounted, currentUser, lastToggle, lastHb, ref, isVisible, streams, channels, starts, camOps, screenOps,
                 intervalTimers, warmupTimers, hbInFlight, graceTimers,
                 sceneCalls, passive, issued, now, timed, lastEval>>

\* the end animation has settled: channel, media and heartbeat are cleaned up
\* and the summary is requested (lines 1273-1303)
endAnimationResolves ==
  /\ ends.pc = "awaitAnim"
  /\ LET ch == cleanupRealtimeChannel([ref |-> ref, channels |-> channels])
         hb == stopHeartbeat(
                 [ref |-> CleanupMediaRefs(ch.ref, ends),
                  st |-> CleanupMediaState(st, ends),
                  intervalTimers |-> intervalTimers, warmupTimers |-> warmupTimers])
     IN /\ channels' = ch.channels
        /\ streams' = CleanupMediaTracks(streams, ends)
        /\ ref' = hb.ref
        /\ st' = hb.st
        /\ intervalTimers' = hb.intervalTimers
        /\ warmupTimers' = hb.warmupTimers
  /\ passive' = [passive EXCEPT !.on = FALSE]
  /\ ends' = [ends EXCEPT !.pc = "awaitSummary"]
  /\ UNCHANGED <<micOps, mounted, currentUser, lastToggle, lastHb, isVisible, starts, camOps, screenOps, hbInFlight, graceTimers,
                 sceneCalls, issued, now, timed, lastEval>>

\* handleEndVoyage, the summary's outcome (lines 1305-1344) and finally
SummaryState(s, outcome) ==
  IF outcome = "throw" THEN EndFailedState(s)
  ELSE [s EXCEPT !.summaryData = IF outcome = "ok" THEN "summary" ELSE "fallback with stats",
                 !.sessionStartTime = FALSE, !.isLoadingSummary = FALSE]

summaryResolves(outcome) ==
  /\ ends.pc = "awaitSummary"
  /\ st' = SummaryState(st, outcome)
  /\ ends' = IdleEnd
  /\ UNCHANGED <<micOps, mounted, currentUser, lastToggle, lastHb, ref, isVisible, streams, channels, starts, camOps, screenOps,
                 intervalTimers, warmupTimers, hbInFlight, graceTimers,
                 sceneCalls, passive, issued, now, timed, lastEval>>

\* handleCloseSummary (lines 1363-1370)
handleCloseSummary ==
  /\ st.showSummaryPanel
  /\ st' = [st EXCEPT !.showSummaryPanel = FALSE, !.summaryData = "undefined",
                      !.sessionStartTime = FALSE]
  /\ isVisible' = FALSE
  /\ UNCHANGED <<micOps, mounted, currentUser, lastToggle, lastHb, ref, streams, channels, starts, ends, camOps, screenOps,
                 intervalTimers, warmupTimers, hbInFlight, graceTimers,
                 sceneCalls, passive, issued, now, timed, lastEval>>

\* ------------------------------------------------------------------- clock
Dues ==
  {t.due : t \in intervalTimers \cup warmupTimers}
    \cup {g.due : g \in BagToSet(graceTimers)} \cup BagToSet(passive.timers)
    \cup {c.due : c \in {d \in BagToSet(sceneCalls) : d.phase = "wait"}}
    \cup {starts[i].due : i \in {j \in 1..MaxStarts : starts[j].pc = "timer"}}

MinOf(S) == CHOOSE x \in S : \A y \in S : x <= y

\* Time passes, never beyond a pending timer's deadline.
Advance ==
  /\ timed
  /\ now < MaxTime
  /\ \A d \in Dues : d > now
  /\ now' = MinOf(Dues \cup {now + AdvanceStep, MaxTime})
  /\ UNCHANGED <<micOps, mounted, currentUser, lastToggle, lastHb, st, ref, isVisible, streams, channels, starts, ends, camOps,
                 screenOps, intervalTimers, warmupTimers, hbInFlight,
                 graceTimers, sceneCalls, passive, issued, timed, lastEval>>

\* ------------------------------------------------------------ specification
\* The single-click user: no second start is requested while one is pending.
NoStartPending == \A i \in 1..MaxStarts : starts[i].pc = "idle"

\* getUserMedia outcomes that end the camera step at the first tier
DirectCameraOutcomes == {"live", "notLive", "NotAllowedError"}

\* The user's way to a start, and the start's steps that wait for nothing
\* outside: tasks are found when the panel opens.
Entry ==
  \/ \E m \in BOOLEAN : OpenPanel(TRUE, m)
  \/ NoStartPending /\ handleStartJourney
  \/ onClosePermissionPanel
  \/ \E i \in 1..MaxStarts : startSailingSession(i)
  \/ \E o \in 1..MaxStarts : cameraDelayDone(o)
  \/ \E i \in 1..MaxStarts : startAnimationResolves(i)

\* The steps that bring a session up, with the environment at its plainest:
\* the backend and every device answer.
StartPath ==
  \/ Entry
  \/ \E i \in 1..MaxStarts : startSessionResolves(i, TRUE)
  \/ \E i \in 1..MaxStarts : sessionMicResolves(i, TRUE)
  \/ \E o \in 1..MaxStarts : cameraRequestResolves(o, "live")

\* StartPath for the first DeepSessions sessions only.
StartPathOnce ==
  \/ Entry
  \/ issued < DeepSessions /\ \E i \in 1..MaxStarts : startSessionResolves(i, TRUE)
  \/ \E i \in 1..MaxStarts : sessionMicResolves(i, TRUE)
  \/ \E o \in 1..MaxStarts : cameraRequestResolves(o, "live")

\* The steps that bring a session down when the backend answers.
EndPath ==
  \/ handleEndVoyage
  \/ sessionEndResolves("ok")
  \/ endAnimationResolves
  \/ summaryResolves("ok")
  \/ handleCloseSummary

\* A capture yields a frame or fails at its first step.
PlainCaptures == {"ok", "playRejected"}

\* The drift state machine over whole sessions.  The evaluations are those of
\* the interval timer: the warm-up's evaluation sends the same request.
Next ==
  \/ StartPath
  \/ handlePermissionsGranted(TRUE, FALSE)
  \/ EndPath
  \/ \E t \in intervalTimers, oc \in PlainCaptures : intervalFires(t, oc, "ok")
  \/ \E i \in 1..MaxInFlight, o \in HeartbeatOutcomes : heartbeatResolves(i, o)
  \/ \E c \in BagToSet(sceneCalls) : sceneCallResolves(c, TRUE)
  \/ handleContinueWorking
  \/ \E g \in BagToSet(graceTimers) : graceTimerFires(g)
  \/ dismissDriftNotification
  \/ \E c \in channels, m \in InterventionMessages : deepDriftEvent(c, m)
  \/ onCloseSeagullPanel

Spec == Init /\ [][Next]_vars

\* The heartbeat's timers and captures over whole sessions, ended well or
\* badly; the responses carry no drift.
FailedHeartbeats == {o \in HeartbeatOutcomes : o.result # "data"}

NextHeartbeat ==
  \/ StartPath
  \/ \E w \in BOOLEAN : handlePermissionsGranted(TRUE, w)
  \/ handleEndVoyage
  \/ \E o \in FetchOutcomes : sessionEndResolves(o)
  \/ endAnimationResolves
  \/ summaryResolves("ok")
  \/ handleCloseSummary
  \/ \E t \in warmupTimers, oc \in PlainCaptures : warmupFires(t, oc, "ok")
  \/ \E t \in intervalTimers, oc \in PlainCaptures : intervalFires(t, oc, "ok")
  \/ \E i \in 1..MaxInFlight, o \in FailedHeartbeats : heartbeatResolves(i, o)

SpecHeartbeat == Init /\ [][NextHeartbeat]_vars

\* The evaluations of the first DeepSessions sessions, with every outcome
\* of either capture, the camera and the screen each held or not.
NextCapture ==
  \/ Entry
  \/ \E w \in BOOLEAN : handlePermissionsGranted(TRUE, w)
  \/ issued < DeepSessions /\ \E i \in 1..MaxStarts : startSessionResolves(i, TRUE)
  \/ \E i \in 1..MaxStarts : sessionMicResolves(i, TRUE)
  \/ \E o \in 1..MaxStarts, c \in DirectCameraOutcomes : cameraRequestResolves(o, c)
  \/ EndPath
  \/ \E t \in warmupTimers, oc, os \in CaptureOutcomes : warmupFires(t, oc, os)
  \/ \E t \in intervalTimers, oc, os \in CaptureOutcomes : intervalFires(t, oc, os)
  \/ \E i \in 1..MaxInFlight, o \in FailedHeartbeats : heartbeatResolves(i, o)

SpecCapture == Init /\ [][NextCapture]_vars

\* Sessions started and ended with every outcome of the backend and of the
\* devices, and ended from outside; no heartbeat is evaluated.
NextEnd ==
  \/ Entry
  \/ \E w \in BOOLEAN : handlePermissionsGranted(TRUE, w)
  \/ \E i \in 1..MaxStarts, ok \in BOOLEAN : startSessionResolves(i, ok)
  \/ \E i \in 1..MaxStarts, r \in BOOLEAN : channelSetupThrows(i, r)
  \/ \E i \in 1..MaxStarts, g \in BOOLEAN : sessionMicResolves(i, g)
  \/ \E o \in 1..MaxStarts, c \in DirectCameraOutcomes : cameraRequestResolves(o, c)
  \/ \E c \in channels : sessionEndedEvent(c)
  \/ onCloseControlPanel
  \/ handleEndVoyage
  \/ \E o \in FetchOutcomes : sessionEndResolves(o)
  \/ endAnimationResolves
  \/ \E o \in FetchOutcomes : summaryResolves(o)
  \/ handleCloseSummary

SpecEnd == Init /\ [][NextEnd]_vars

\* The streams the unmount effect's cleanupMediaStreams sees: the effect has
\* no dependencies (line 258), so its cleanup is the closure of the first
\* render, with the useState initial values (lines 111-113).
MountClosure ==
  [videoStream |-> InitSt.videoStream, screenStream |-> InitSt.screenStream,
   micStream |-> InitSt.micStream]

\* The cleanup of the unmount effect (lines 251-258): cleanupRealtimeChannel,
\* cleanupMediaStreams and stopHeartbeat of the first render.
unmount ==
  /\ mounted
  /\ mounted' = FALSE
  /\ LET ch == cleanupRealtimeChannel([ref |-> ref, channels |-> channels])
         hb == stopHeartbeat(
                 [ref |-> CleanupMediaRefs(ch.ref, MountClosure),
                  st |-> CleanupMediaState(st, MountClosure),
                  intervalTimers |-> intervalTimers, warmupTimers |-> warmupTimers])
     IN /\ channels' = ch.channels
        /\ streams' = CleanupMediaTracks(streams, MountClosure)
        /\ ref' = hb.ref
        /\ st' = hb.st
        /\ intervalTimers' = hb.intervalTimers
        /\ warmupTimers' = hb.warmupTimers
  /\ passive' = [passive EXCEPT !.on = FALSE]
  /\ UNCHANGED <<micOps, currentUser, lastToggle, lastHb, isVisible, starts, ends, camOps, screenOps,
                 hbInFlight, graceTimers, sceneCalls, issued, now, timed, lastEval>>

\* Sessions started and ended with every outcome, and the panel unmounted at
\* any moment; nothing is followed after the unmount.
NextUnmount ==
  \/ mounted /\ Entry
  \/ mounted /\ \E w \in BOOLEAN : handlePermissionsGranted(TRUE, w)
  \/ mounted /\ \E i \in 1..MaxStarts, ok \in BOOLEAN : startSessionResolves(i, ok)
  \/ mounted /\ \E i \in 1..MaxStarts, r \in BOOLEAN : channelSetupThrows(i, r)
  \/ mounted /\ \E i \in 1..MaxStarts, g \in BOOLEAN : sessionMicResolves(i, g)
  \/ mounted /\ \E o \in 1..MaxStarts, c \in DirectCameraOutcomes : cameraRequestResolves(o, c)
  \/ mounted /\ \E c \in channels : sessionEndedEvent(c)
  \/ mounted /\ onCloseControlPanel
  \/ mounted /\ handleEndVoyage
  \/ mounted /\ \E o \in FetchOutcomes : sessionEndResolves(o)
  \/ mounted /\ endAnimationResolves
  \/ mounted /\ \E o \in FetchOutcomes : summaryResolves(o)
  \/ mounted /\ handleCloseSummary
  \/ unmount

SpecUnmount == Init /\ [][NextUnmount]_vars

\* The microphone control of the control panel, over sessions started and
\* ended with every outcome.
NextMic ==
  \/ Entry
  \/ \E w \in BOOLEAN : handlePermissionsGranted(TRUE, w)
  \/ \E i \in 1..MaxStarts, ok \in BOOLEAN : startSessionResolves(i, ok)
  \/ \E i \in 1..MaxStarts, r \in BOOLEAN : channelSetupThrows(i, r)
  \/ \E i \in 1..MaxStarts, g \in BOOLEAN : sessionMicResolves(i, g)
  \/ \E o \in 1..MaxStarts, c \in DirectCameraOutcomes : cameraRequestResolves(o, c)
  \/ \E c \in channels : sessionEndedEvent(c)
  \/ onCloseControlPanel
  \/ handleEndVoyage
  \/ \E o \in FetchOutcomes : sessionEndResolves(o)
  \/ endAnimationResolves
  \/ \E o \in FetchOutcomes : summaryResolves(o)
  \/ handleCloseSummary
  \/ toggleMic
  \/ \E g \in BOOLEAN : micRequestResolves(g)

SpecMic == Init /\ [][NextMic]_vars

\* The heartbeat's evaluations with the camera and the screen turned on and
\* off during the first DeepSessions sessions, ended by the user or from
\* outside.
NextTick ==
  \/ Entry
  \/ handlePermissionsGranted(TRUE, FALSE)
  \/ issued < DeepSessions /\ \E i \in 1..MaxStarts : startSessionResolves(i, TRUE)
  \/ \E i \in 1..MaxStarts : sessionMicResolves(i, TRUE)
  \/ \E o \in CamOwners : cameraDelayDone(o)
  \/ \E o \in CamOwners, c \in DirectCameraOutcomes : cameraRequestResolves(o, c)
  \/ \E o \in ScreenOwners, g \in BOOLEAN : screenRequestResolves(o, g)
  \/ toggleVideo
  \/ toggleScreenShare
  \/ \E id \in 1..MaxStreams : screenTrackEnded(id)
  \/ EndPath
  \/ \E c \in channels : sessionEndedEvent(c)
  \/ \E t \in warmupTimers : warmupFires(t, "ok", "ok")
  \/ \E t \in intervalTimers : intervalFires(t, "ok", "ok")
  \/ \E i \in 1..MaxInFlight, o \in FailedHeartbeats : heartbeatResolves(i, o)

SpecTick == Init /\ [][NextTick]_vars

\* The media controls of the control panel and of the previews, over the first
\* DeepSessions sessions, started and ended plainly; the camera is asked for
\* tier by tier.
NextMedia ==
  \/ Entry
  \/ \E w \in BOOLEAN : handlePermissionsGranted(TRUE, w)
  \/ issued < DeepSessions /\ \E i \in 1..MaxStarts : startSessionResolves(i, TRUE)
  \/ \E i \in 1..MaxStarts : sessionMicResolves(i, TRUE)
  \/ \E o \in CamOwners : cameraDelayDone(o)
  \/ \E o \in CamOwners, c \in CameraOutcomes : cameraRequestResolves(o, c)
  \/ \E o \in ScreenOwners, g \in BOOLEAN : screenRequestResolves(o, g)
  \/ toggleVideo
  \/ toggleScreenShare
  \/ \E id \in 1..MaxStreams : screenTrackEnded(id)
  \/ onCloseControlPanel
  \/ EndPath

SpecMedia == Init /\ [][NextMedia]_vars

\* The user asks for a start again before the pending start's timer fires.
NextRace ==
  \/ \E m \in BOOLEAN : OpenPanel(TRUE, m)
  \/ handleStartJourney
  \/ handlePermissionsGranted(TRUE, FALSE)
  \/ onClosePermissionPanel
  \/ \E i \in 1..MaxStarts : startSailingSession(i)
  \/ \E i \in 1..MaxStarts, ok \in BOOLEAN : startSessionResolves(i, ok)
  \/ \E i \in 1..MaxStarts : sessionMicResolves(i, TRUE)
  \/ \E o \in 1..MaxStarts : cameraDelayDone(o)
  \/ \E o \in 1..MaxStarts : cameraRequestResolves(o, "live")
  \/ \E i \in 1..MaxStarts : startAnimationResolves(i)
  \/ EndPath

SpecRace == Init /\ [][NextRace]_vars

\* The first DeepSessions sessions on the clock: every timer fires when it is
\* due, and the user acts at any time.
InitTimed == InitCommon /\ timed = TRUE

NextTimed ==
  \/ Advance
  \/ StartPathOnce
  \/ handlePermissionsGranted(TRUE, FALSE)
  \/ \E d \in BagToSet(passive.timers) : passiveTimerFires(d)
  \/ \E t \in warmupTimers : warmupFires(t, "ok", "ok")
  \/ \E t \in intervalTimers : intervalFires(t, "ok", "ok")
  \/ \E i \in 1..MaxInFlight, o \in FailedHeartbeats : heartbeatResolves(i, o)
  \/ EndPath

SpecTimed == InitTimed /\ [][NextTimed]_vars

\* The drift state machine of the first DeepSessions sessions on the clock:
\* the session is started as soon as the panel is there, and every response
\* of the evaluation and every outcome of the scene webhook is considered.
PlainReasons == {o \in HeartbeatOutcomes : o.drift_reason = ""}

NextGrace ==
  \/ (st.isSessionActive \/ ~NoStartPending) /\ Advance
  \/ StartPathOnce
  \/ handlePermissionsGranted(TRUE, FALSE)
  \/ \E d \in BagToSet(passive.timers) : passiveTimerFires(d)
  \/ \E t \in warmupTimers : warmupFires(t, "ok", "ok")
  \/ \E t \in intervalTimers : intervalFires(t, "ok", "ok")
  \/ \E i \in 1..MaxInFlight, o \in PlainReasons : heartbeatResolves(i, o)
  \/ \E c \in BagToSet(sceneCalls) : sceneCallResolves(c, TRUE)
  \/ handleContinueWorking
  \/ \E g \in BagToSet(graceTimers) : graceTimerFires(g)
  \/ dismissDriftNotification

SpecGrace == InitTimed /\ [][NextGrace]_vars

\* The scene webhook on the clock, each attempt answered well or badly, the
\* user signed in or not: the first SceneHorizon ms of the first DeepSessions
\* sessions, with the drift entered by the warm-up's evaluation and left by
\* the user.
DriftingAnswers == {o \in HeartbeatOutcomes : o.is_drifting /\ o.drift_reason = ""}

NextScene ==
  \/ now < SceneHorizon /\ (st.isSessionActive \/ ~NoStartPending) /\ Advance
  \/ StartPathOnce
  \/ handlePermissionsGranted(TRUE, FALSE)
  \/ \E d \in BagToSet(passive.timers) : passiveTimerFires(d)
  \/ \E t \in warmupTimers : warmupFires(t, "ok", "ok")
  \/ \E i \in 1..MaxInFlight, o \in DriftingAnswers : heartbeatResolves(i, o)
  \/ \E c \in BagToSet(sceneCalls), ok \in BOOLEAN : sceneCallResolves(c, ok)
  \/ \E c \in BagToSet(sceneCalls) : sceneRetryTimerFires(c)
  \/ handleContinueWorking
  \/ userSignedOut

SpecScene == InitTimed /\ [][NextScene]_vars

\* ------------------------------------------------------------------ claims
DriftScene == SceneCall("drift", SCENE_RETRIES)
SailingScene == SceneCall("sailing", SCENE_RETRIES)
ReasonShown(data) ==
  IF data.drift_reason = "" THEN DefaultDriftReason ELSE data.drift_reason

\* C1: once isDrifting is true it stays true until continueWorking is invoked:
\* the only step that clears it is handleContinueWorking, and no heartbeat
\* response, is_drifting = false included, clears it.
C1_DriftStaysUntilContinue ==
  [][ /\ (st.isDrifting /\ ~st'.isDrifting) => handleContinueWorking
      /\ (st.isDrifting /\ lastHb'.handled /\ ~lastHb'.is_drifting) => st'.isDrifting ]_vars

\* C1: drifting, after a response with is_drifting = false was handled in
\* drift mode.
C1_Witness ==
  st.isDrifting /\ lastHb.handled /\ lastHb.was /\ ~lastHb.is_drifting

\* The startSailingSession invocations past the guard.
Starting == {i \in 1..MaxStarts : starts[i].pc \notin {"idle", "timer"}}

\* C9 as stated: the first evaluation is initiated 8 s after the start and each
\* later one 60 s after the one before: at t0 + 68 s, t0 + 128 s, ...
C9_IntervalsFollowWarmup ==
  /\ lastEval.kind = "warmup" => lastEval.at = lastEval.t0 + HEARTBEAT_WARMUP_MS
  /\ lastEval.kind = "interval" =>
        /\ lastEval.at >= lastEval.t0 + HEARTBEAT_WARMUP_MS + HEARTBEAT_INTERVAL_MS
        /\ (lastEval.at - lastEval.t0 - HEARTBEAT_WARMUP_MS) % HEARTBEAT_INTERVAL_MS = 0

\* C9: the warm-up's evaluation is initiated 8 s after the start, and the
\* interval's evaluations 60 s, 120 s, ... after the start: both timers are
\* set when the heartbeat starts.
C9_EvaluationTimes ==
  /\ lastEval.kind = "warmup" => lastEval.at = lastEval.t0 + HEARTBEAT_WARMUP_MS
  /\ lastEval.kind = "interval" =>
        /\ lastEval.at >= lastEval.t0 + HEARTBEAT_INTERVAL_MS
        /\ (lastEval.at - lastEval.t0) % HEARTBEAT_INTERVAL_MS = 0

\* C9: the interval's second evaluation, 120 s after the start.
C9_Witness ==
  /\ lastEval.kind = "interval"
  /\ lastEval.at = lastEval.t0 + 2 * HEARTBEAT_INTERVAL_MS
  /\ ref.heartbeatIntervalRef # Null

\* C10: a startSession invoked while another is in progress or a session is
\* active returns at its guard, so that at most one invocation is ever past
\* the guard and none is while a session is active.
C10_OneStartAtATime ==
  [][ /\ \A i \in 1..MaxStarts :
            (startSailingSession(i) /\ (st.isStartingSession \/ st.isSessionActive))
              => starts'[i].pc = "idle"
      /\ Cardinality(Starting') <= 1
      /\ st'.isSessionActive => Starting' = {} ]_vars

\* The streams the component held when endSession was invoked.
HeldAtEnd == {ends.videoStream, ends.screenStream, ends.micStream} \ {Null}

\* C2: an endSession invoked with an active session id finishes, whatever the
\* finalize request's outcome, with every stream it held stopped and cleared
\* from the state and the refs.
C2_EndStopsEveryStream ==
  [][ (ends.pc # "idle" /\ ends'.pc = "idle")
        => \A id \in HeldAtEnd :
             /\ ~streams'[id].live
             /\ id \notin {st'.videoStream, st'.screenStream, st'.micStream,
                            ref'.videoStreamRef, ref'.screenStreamRef} ]_vars

\* C3: endSession invoked with currentSessionId null sets the session error
\* and changes nothing else.
C3_EndWithoutSession ==
  [][ (st.currentSessionId = NoSession /\ handleEndVoyage)
        => /\ st' = [st EXCEPT !.sessionError = "No active session found"]
           /\ UNCHANGED <<ref, isVisible, streams, channels, starts, ends, camOps,
                          screenOps, intervalTimers, warmupTimers, hbInFlight,
                          graceTimers, sceneCalls, passive, issued>> ]_vars

\* C3: the error is shown with no session and no end under way.
C3_Witness ==
  /\ st.sessionError = "No active session found"
  /\ st.currentSessionId = NoSession
  /\ ends.pc = "idle"

\* C4: startHeartbeat with the heartbeat active changes nothing, and there is
\* never more than one interval timer.
C4_StartWhileActiveIsNoOp ==
  [][ /\ \A i \in 1..MaxStarts :
            (ref.heartbeatIntervalRef # Null /\ startAnimationResolves(i))
              => /\ intervalTimers' = intervalTimers
                 /\ warmupTimers' = warmupTimers
                 /\ ref'.heartbeatIntervalRef = ref.heartbeatIntervalRef
                 /\ st'.isHeartbeatActive = st.isHeartbeatActive
      /\ Cardinality(intervalTimers') <= 1 ]_vars

\* C4: a second session is active on top of the first session's heartbeat.
C4_Witness ==
  /\ st.isSessionActive
  /\ ref.heartbeatIntervalRef # Null
  /\ ref.heartbeatIntervalRef # st.currentSessionId
  /\ Cardinality(intervalTimers) = 1

\* C5 as stated: toggleVideo invoked while a live camera stream is held issues
\* no device request and leaves the stream held and live.
C5_SecondToggleKeepsStream ==
  [][ (IsActive(streams, st.videoStream) /\ toggleVideo)
        => /\ camOps' = camOps
           /\ st'.videoStream = st.videoStream
           /\ IsActive(streams', st'.videoStream) ]_vars

\* C5: toggleVideo is a toggle.  Invoked with the camera on and its stream
\* held, it issues no device request and turns the camera off: the stream is
\* stopped and cleared from the state and the ref, and no stream is handed out.
C5_SecondToggleTurnsOff ==
  [][ (st.isVideoOn /\ st.videoStream # Null /\ toggleVideo)
        => /\ camOps' = camOps
           /\ ~streams'[st.videoStream].live
           /\ st'.videoStream = Null /\ ~st'.isVideoOn
           /\ ref'.videoStreamRef = Null
           /\ \A id \in 1..MaxStreams : streams'[id].live => streams[id].live ]_vars

\* C5: the camera was turned off by toggleVideo in an active session.
C5_Witness ==
  /\ lastToggle = "off"
  /\ st.isSessionActive
  /\ ~st.isVideoOn /\ st.videoStream = Null
  /\ camOps.pc = "idle"

\* C6: either capture returns null when its stream is absent and null, never
\* an exception, when a step of the capture fails; the evaluation goes on with
\* whatever was captured, and sends its request if either frame exists.
\* (An evaluation changes the requests under way or uses up the warm-up timer.)
C6_CaptureFailureIsNull ==
  [][ (hbInFlight' # hbInFlight \/ warmupTimers' # warmupTimers) =>
      \A t \in warmupTimers \cup intervalTimers, oc, os \in CaptureOutcomes :
        LET cam == captureCameraFrame(ref.videoStreamRef, oc)
            scr == captureScreenFrame(ref.screenStreamRef, os)
        IN (warmupFires(t, oc, os) \/ intervalFires(t, oc, os))
             => /\ cam = IF ref.videoStreamRef # Null /\ oc = "ok" THEN "blob" ELSE "null"
                /\ scr = IF ref.screenStreamRef # Null /\ os = "ok" THEN "blob" ELSE "null"
                /\ hbInFlight' =
                     IF cam = "null" /\ scr = "null" THEN hbInFlight
                     ELSE Append(hbInFlight,
                                 [sessionId |-> t.sid, drift |-> t.drift,
                                  cameraImage |-> cam, screenImage |-> scr]) ]_vars

\* C6: a request is under way that carries the screen's frame alone, the
\* camera's stream being held: the camera's capture failed.
C6_Witness ==
  /\ ref.videoStreamRef # Null
  /\ IsActive(streams, ref.videoStreamRef)
  /\ \E i \in 1..Len(hbInFlight) :
        hbInFlight[i].cameraImage = "null" /\ hbInFlight[i].screenImage = "blob"

\* C7: a response with is_drifting = true handled while isDrifting is false
\* makes the state drifting, stores the reason (the default when absent),
\* clears the acknowledgement and triggers the drift scene; one with
\* is_drifting = false handled while isDrifting is false leaves the drift
\* state as it was.
C7_HeartbeatEntersDrift ==
  [][ \A i \in 1..MaxInFlight, o \in HeartbeatOutcomes :
        (o.result = "data" /\ ~st.isDrifting /\ heartbeatResolves(i, o))
          => IF o.is_drifting
             THEN /\ st'.isDrifting
                  /\ st'.driftReason = ReasonShown(o)
                  /\ ~st'.isDriftAcknowledged
                  /\ BagIn(DriftScene, sceneCalls')
             ELSE /\ st'.isDrifting = st.isDrifting
                  /\ st'.driftReason = st.driftReason
                  /\ st'.isDriftAcknowledged = st.isDriftAcknowledged ]_vars

\* C8: continueWorking sets isDrifting to false and the acknowledgement to
\* true and triggers the sailing scene; a response with is_drifting = true
\* handled afterwards, the grace timer still pending, makes the state
\* drifting again with the acknowledgement false.
C8_ContinueThenDriftAgain ==
  [][ /\ handleContinueWorking
          => /\ ~st'.isDrifting
             /\ st'.isDriftAcknowledged
             /\ BagIn(SailingScene, sceneCalls')
      /\ \A i \in 1..MaxInFlight, o \in HeartbeatOutcomes :
            (/\ o.result = "data" /\ o.is_drifting
             /\ ~st.isDrifting /\ graceTimers # EmptyBag
             /\ heartbeatResolves(i, o))
              => st'.isDrifting /\ ~st'.isDriftAcknowledged ]_vars

\* The stream kinds, and the live streams of a kind the component acquired
\* itself or adopted into its state (the permission panel's own screen stream
\* is the component's once handlePermissionsGranted has stored it).
StreamKinds == {"camera", "screen", "microphone"}
LiveOfKind(strs, s, k) ==
  {id \in 1..MaxStreams :
     /\ strs[id].live /\ strs[id].kind = k
     /\ (k = "screen" => (strs[id].ended \/ id = s.screenStream))}

\* C11: for each stream kind at most one acquired stream has live tracks, and
\* a stream is never replaced in or dropped from the state without its tracks
\* having been stopped.
C11_OneLiveStreamPerKind ==
  [][ /\ \A k \in StreamKinds : Cardinality(LiveOfKind(streams', st', k)) <= 1
      /\ (st.videoStream # Null /\ st'.videoStream # st.videoStream)
            => ~streams'[st.videoStream].live
      /\ (st.screenStream # Null /\ st'.screenStream # st.screenStream)
            => ~streams'[st.screenStream].live
      /\ (st.micStream # Null /\ st'.micStream # st.micStream)
            => ~streams'[st.micStream].live ]_vars

\* C12: a startSession that fails before the session is marked active (the
\* backend call or the channel setup throws) returns with a session error set,
\* isSessionActive false, currentSessionId null and isStartingSession false,
\* and has not started the heartbeat.
C12_FailedStartResets ==
  [][ \A i \in 1..MaxStarts :
        (starts[i].pc = "awaitStart" /\ starts'[i].pc = "idle")
          => /\ st'.sessionError = "start failed"
             /\ ~st'.isSessionActive
             /\ st'.currentSessionId = NoSession
             /\ ~st'.isStartingSession
             /\ intervalTimers' = intervalTimers
             /\ warmupTimers' = warmupTimers
             /\ ref'.heartbeatIntervalRef = ref.heartbeatIntervalRef
             /\ st'.isHeartbeatActive = st.isHeartbeatActive ]_vars

\* C12: a start has failed after the backend had created its session: the
\* error is shown, no start is under way and no heartbeat runs.
C12_Witness ==
  /\ st.sessionError = "start failed"
  /\ issued > 0
  /\ NoStartPending
  /\ ~st.isSessionActive /\ st.currentSessionId = NoSession
  /\ ~st.isStartingSession
  /\ intervalTimers = {} /\ ref.heartbeatIntervalRef = Null

\* The positions of a startSailingSession invocation after the backend has
\* answered and the channel is set up.
PastBackend == {"awaitMic", "tvDelay", "tvTier", "awaitScreen", "awaitAnim"}

\* C13: once the backend call has succeeded, startSession returns only by
\* marking the session active and starting the heartbeat, whatever the
\* outcome of the microphone, the camera, the screen and the animation.
C13_StartSurvivesDeviceFailures ==
  [][ \A i \in 1..MaxStarts :
        (starts[i].pc \in PastBackend /\ starts'[i].pc = "idle")
          => /\ st'.isSessionActive
             /\ st'.currentSessionId = starts[i].sid
             /\ st'.isHeartbeatActive
             /\ ref'.heartbeatIntervalRef # Null
             /\ intervalTimers' # {} ]_vars

\* C13: a session is active with its heartbeat running although neither the
\* microphone nor the camera could be acquired.
C13_Witness ==
  /\ st.isSessionActive /\ st.currentSessionId # NoSession
  /\ st.isHeartbeatActive /\ intervalTimers # {}
  /\ st.micStream = Null /\ st.videoStream = Null
  /\ st.sessionError = "camera: permission"

\* C14: an endSession invoked with an active session finishes, for every
\* outcome of the finalize and summary requests, with isSessionActive false,
\* currentSessionId null, the summary panel shown with summary data set and
\* isLoadingSummary false.  (The summary panel it opened is still open: the
\* user has not closed it while the requests were under way.)
C14_EndAlwaysCloses ==
  [][ (ends.pc # "idle" /\ ends'.pc = "idle" /\ st.showSummaryPanel)
        => /\ ~st'.isSessionActive
           /\ st'.currentSessionId = NoSession
           /\ st'.showSummaryPanel
           /\ st'.summaryData \in {"summary", "fallback", "fallback with stats"}
           /\ ~st'.isLoadingSummary ]_vars

\* C14: an end has finished on a failure: the summary panel shows the
\* fallback summary, the error is set and nothing is loading.
C14_Witness ==
  /\ ends.pc = "idle"
  /\ st.showSummaryPanel /\ st.summaryData = "fallback"
  /\ st.sessionError = "end failed"
  /\ ~st.isLoadingSummary
  /\ ~st.isSessionActive /\ st.currentSessionId = NoSession

\* C15: when an endSession invoked with an active session has finished, the
\* heartbeat timer is inactive and no realtime channel is open, whether or not
\* the finalize request succeeded.  (The summary panel it opened is still
\* open, so that no other session has been started meanwhile.)
C15_EndStopsHeartbeatAndChannel ==
  [][ (ends.pc # "idle" /\ ends'.pc = "idle" /\ st.showSummaryPanel)
        => /\ ref'.heartbeatIntervalRef = Null
           /\ intervalTimers' = {}
           /\ ~st'.isHeartbeatActive
           /\ channels' = {}
           /\ ref'.realtimeChannelRef = NoSession ]_vars

\* C16: at most one realtime channel subscription is open at any time, and it
\* is the one the ref holds: a channel opened for a new session replaces the
\* existing subscription, and cleanup leaves none open.
C16_OneChannel ==
  [][ /\ Cardinality(channels') <= 1
      /\ channels' \subseteq {ref'.realtimeChannelRef}
      /\ \A i \in 1..MaxStarts :
            startSessionResolves(i, TRUE) => channels' = {starts'[i].sid}
      /\ endAnimationResolves => channels' = {} ]_vars

\* C16: the second of two overlapping starts has opened its channel in place
\* of the first one's, the first start still under way.
C16_Witness ==
  /\ issued = 2
  /\ channels = {2} /\ ref.realtimeChannelRef = 2
  /\ \E i \in 1..MaxStarts : starts[i].pc \in PastBackend /\ starts[i].sid = 1

\* C17: handling a remote session_ended event leaves isSessionActive false and
\* currentSessionId null, whatever the state was before the event.
C17_RemoteEndClearsSession ==
  [][ \A c \in channels :
        sessionEndedEvent(c)
          => ~st'.isSessionActive /\ st'.currentSessionId = NoSession ]_vars

\* C17: a session was ended from outside: the control panel of the session is
\* still shown and the session's start time, heartbeat and channel are still
\* there, with the session flags cleared.
C17_Witness ==
  /\ st.showControlPanel /\ st.sessionStartTime
  /\ channels # {} /\ ref.heartbeatIntervalRef # Null
  /\ NoStartPending /\ ends.pc = "idle"
  /\ ~st.isSessionActive /\ st.currentSessionId = NoSession

\* C18: a deep_drift_detected event leaves the drift state and the session
\* flags as they were; all it changes is the intervention panel, opened with
\* the payload's message (the default message when the payload has none) and
\* a conversation context.
C18_DeepDriftOnlyOpensPanel ==
  [][ \A c \in channels, m \in InterventionMessages :
        deepDriftEvent(c, m)
          => /\ st' = [st EXCEPT !.showSeagullPanel = st'.showSeagullPanel,
                                 !.seagullMessage = st'.seagullMessage,
                                 !.seagullConversationContext =
                                    st'.seagullConversationContext]
             /\ st'.showSeagullPanel
             /\ st'.seagullMessage = IF m = "" THEN DefaultInterventionMessage ELSE m
             /\ st'.seagullConversationContext = "drift_intervention"
             /\ UNCHANGED <<ref, isVisible, streams, channels, starts, ends, camOps,
                            screenOps, intervalTimers, warmupTimers, hbInFlight,
                            graceTimers, sceneCalls, passive, issued>> ]_vars

\* C18: the intervention panel is open with the default message while the
\* session is active and drifting, the drift not acknowledged.
C18_Witness ==
  /\ st.showSeagullPanel
  /\ st.seagullMessage = DefaultInterventionMessage
  /\ st.seagullConversationContext = "drift_intervention"
  /\ st.isSessionActive /\ st.isDrifting /\ ~st.isDriftAcknowledged

\* The record of owner o's toggleVideo; a step changes it when the pending
\* camera request settles.
CamRec(o) == IF o = 0 THEN camOps ELSE starts[o]

\* C19: no camera operation leaves a stream that is not live referenced: when
\* the stream acquired has no live video track, its tracks are stopped, the
\* error is set, and videoStream, its mirror and isVideoOn are cleared; and
\* whenever a camera request settles, the stream in the state, if any, is live.
C19_NoDeadCameraStream ==
  [][ \A o \in CamOwners : (CamPc(o) = "tvTier" /\ CamRec(o)' # CamRec(o)) =>
        /\ cameraRequestResolves(o, "notLive")
             => /\ \A id \in 1..MaxStreams : streams'[id].live => streams[id].live
                /\ st'.sessionError = CameraErrorText("notLive")
                /\ st'.videoStream = Null /\ ~st'.isVideoOn
                /\ ref'.videoStreamRef = Null
        /\ st'.videoStream # Null => IsActive(streams', st'.videoStream)
        /\ ref'.videoStreamRef = st'.videoStream ]_vars

\* C19: a camera request has ended on a stream that was not live: the error
\* is shown and no camera stream is held or live.
C19_Witness ==
  /\ st.sessionError = CameraErrorText("notLive")
  /\ st.videoStream = Null /\ ref.videoStreamRef = Null /\ ~st.isVideoOn
  /\ \A id \in 1..MaxStreams : ~(streams[id].live /\ streams[id].kind = "camera")

\* C20: a response with is_drifting = true handled while the state is
\* drifting has no side effect: the drift scene is not triggered again, the
\* acknowledgement is not reset and the stored reason is not overwritten.
C20_DriftWhileDriftingIsNoOp ==
  [][ \A i \in 1..MaxInFlight, o \in HeartbeatOutcomes :
        (/\ o.result = "data" /\ o.is_drifting
         /\ st.isDrifting
         /\ heartbeatResolves(i, o))
          => /\ sceneCalls' = sceneCalls
             /\ st'.isDriftAcknowledged = st.isDriftAcknowledged
             /\ st'.driftReason = st.driftReason ]_vars

\* C21: the grace timer of a continueWorking call sets the acknowledgement
\* back to false 60 seconds after that call: not before, since it fires at no
\* other time, and not later, since time does not pass its deadline.
C21_GraceLastsOneMinute ==
  [][ /\ \A g \in BagToSet(graceTimers) :
            graceTimerFires(g)
              => now = g.t0 + 60000 /\ ~st'.isDriftAcknowledged
      /\ \A g \in BagToSet(graceTimers') : now' <= g.t0 + 60000 ]_vars

\* C21: the grace timer has fired: the drift was left by continueWorking, no
\* response has been handled since, and the acknowledgement is false again
\* with no grace timer pending.
C21_Witness ==
  /\ st.isSessionActive
  /\ st.driftReason # "" /\ ~st.isDrifting
  /\ lastHb = NoResponse
  /\ ~st.isDriftAcknowledged
  /\ graceTimers = EmptyBag
  /\ now >= HEARTBEAT_WARMUP_MS + 60000

\* The error texts toggleVideo sets.
CameraErrors == {CameraErrorText(c) : c \in CameraOutcomes}

\* C22: a camera failure during startSession is informational only: when the
\* start completes with the session active, no session error stands on
\* account of the camera.
C22_CameraFailureIsNoError ==
  [][ \A i \in 1..MaxStarts :
        (startAnimationResolves(i) /\ st'.isSessionActive)
          => st'.sessionError \notin CameraErrors ]_vars

\* The order of the positions of a startSailingSession invocation: the timer,
\* the backend call, the microphone, the camera (when the render has none),
\* the screen (when granted and not shared), the animation, the return.
StartOrder ==
  { <<"idle", "timer">>, <<"timer", "idle">>, <<"timer", "awaitStart">>,
    <<"awaitStart", "idle">>, <<"awaitStart", "awaitMic">>,
    <<"awaitMic", "tvDelay">>, <<"awaitMic", "awaitScreen">>, <<"awaitMic", "awaitAnim">>,
    <<"tvDelay", "tvTier">>, <<"tvTier", "awaitScreen">>, <<"tvTier", "awaitAnim">>,
    <<"awaitScreen", "awaitAnim">>, <<"awaitAnim", "idle">> }

\* C23: the steps of a successful startSession come in this order: the session
\* id is obtained and the channel for that id opened, then the microphone and
\* the camera are tried, then the animation is triggered, then the session is
\* marked active and the heartbeat started (startHeartbeat does nothing when a
\* heartbeat is still active), and passive listening starts 2 seconds later;
\* no heartbeat is started unless the session is marked active.
C23_StartStepsInOrder ==
  [][ /\ \A i \in 1..MaxStarts :
           /\ starts'[i].pc # starts[i].pc
                => <<starts[i].pc, starts'[i].pc>> \in StartOrder
           /\ starts'[i].pc \in {"idle", "timer", "awaitStart"}
                => starts'[i].sid = NoSession
           /\ (starts[i].pc = "awaitStart" /\ starts'[i].pc = "awaitMic")
                => /\ starts'[i].sid # NoSession
                   /\ channels' = {starts'[i].sid}
                   /\ ~st'.isSessionActive
           /\ starts'[i].pc \in PastBackend
                => \A t \in intervalTimers' : t.sid # starts'[i].sid
           /\ (starts[i].pc = "awaitAnim" /\ starts'[i].pc = "idle")
                => /\ st'.isSessionActive /\ st'.currentSessionId = starts[i].sid
                   /\ ref'.heartbeatIntervalRef # Null
                   /\ ref.heartbeatIntervalRef = Null
                        => \E t \in intervalTimers' : t.sid = starts[i].sid /\ t.t0 = now
                   /\ BagIn(now + 2000, passive'.timers)
      /\ (ref'.heartbeatIntervalRef # ref.heartbeatIntervalRef /\ ref'.heartbeatIntervalRef # Null)
           => st'.isSessionActive
      /\ (passive'.on /\ ~passive.on)
           => \E d \in BagToSet(passive.timers) : passiveTimerFires(d) /\ now = d ]_vars

\* C23: passive listening has just started, 2 seconds after the session was
\* marked active and its heartbeat started; the channel, the microphone and
\* the camera of the session are there.
C23_Witness ==
  /\ passive.on /\ st.isSessionActive
  /\ \E t \in intervalTimers : t.sid = st.currentSessionId /\ now = t.t0 + 2000
  /\ channels = {st.currentSessionId}
  /\ st.micStream # Null /\ st.videoStream # Null

\* C24: endSession clears currentSessionId, isSessionActive and
\* isStartingSession before its first request is issued, and after a
\* successful finalize the realtime channel, the media streams and the
\* heartbeat are all torn down when the summary request is issued.  (The
\* summary panel is still open, so that nothing has been started meanwhile.)
C24_EndTearsDownBeforeSummary ==
  [][ /\ (ends.pc = "idle" /\ ends'.pc = "awaitEnd")
           => /\ st'.currentSessionId = NoSession
              /\ ~st'.isSessionActive /\ ~st'.isStartingSession
      /\ (ends.pc = "awaitAnim" /\ ends'.pc = "awaitSummary" /\ st.showSummaryPanel)
           => /\ channels' = {} /\ ref'.realtimeChannelRef = NoSession
              /\ ref'.heartbeatIntervalRef = Null /\ intervalTimers' = {}
              /\ st'.videoStream = Null /\ st'.screenStream = Null
              /\ st'.micStream = Null
              /\ \A id \in {st.videoStream, st.screenStream, st.micStream,
                            ref.videoStreamRef, ref.screenStreamRef} \ {Null} :
                   ~streams'[id].live ]_vars

C26_FailedHeartbeatChangesNothing ==
  [][ hbInFlight' # hbInFlight =>
      \A i \in 1..Len(hbInFlight), o \in FailedHeartbeats :
        heartbeatResolves(i, o)
          => /\ st' = st /\ ref' = ref /\ sceneCalls' = sceneCalls
             /\ hbInFlight' = RemoveAt(hbInFlight, i)
             /\ intervalTimers' = intervalTimers /\ warmupTimers' = warmupTimers
             /\ ref'.heartbeatIntervalRef # Null => intervalTimers' # {} ]_vars

\* C26: the request of the interval's first evaluation, sent with the
\* camera's frame 60 s after the start, has failed, as the warm-up's did; the
\* session goes on and the timer is set for 120 s after the start.
C26_Witness ==
  /\ timed /\ st.isSessionActive
  /\ lastEval.kind = "interval" /\ lastEval.at = lastEval.t0 + HEARTBEAT_INTERVAL_MS
  /\ hbInFlight = << >>
  /\ IsActive(streams, ref.videoStreamRef)
  /\ \E t \in intervalTimers :
        /\ t.t0 = lastEval.t0 /\ t.sid = ref.heartbeatIntervalRef
        /\ t.due = t.t0 + 2 * HEARTBEAT_INTERVAL_MS

\* C27: a heartbeat response that arrives after endSession has cleared the
\* session changes nothing of the drift state and triggers no scene change.
C27_LateResponseIsIgnored ==
  [][ (hbInFlight' # hbInFlight /\ st.currentSessionId = NoSession /\ st.showSummaryPanel) =>
      \A i \in 1..Len(hbInFlight), o \in HeartbeatOutcomes :
        heartbeatResolves(i, o)
          => /\ st'.isDrifting = st.isDrifting
             /\ st'.driftReason = st.driftReason
             /\ st'.isDriftAcknowledged = st.isDriftAcknowledged
             /\ sceneCalls' = sceneCalls ]_vars

\* C28: no heartbeat evaluation is initiated while the heartbeat is stopped:
\* neither the interval's nor the warm-up's, also when the heartbeat is
\* stopped less than 8 s after it was started.
C28_NoEvaluationAfterStop ==
  [][ (timed /\ lastEval' # lastEval) => ref.heartbeatIntervalRef # Null ]_vars

\* The retries a triggerSplineDriftScene call has behind it.
RetriesMade(c) == SCENE_RETRIES - c.retries

\* The scene trigger with at most maxRetries retries: an attempt that succeeds
\* ends the call; one that fails changes no state and is followed, 1 s later,
\* by the next attempt while fewer than maxRetries retries were made, and by
\* nothing otherwise; no attempt is made without a user.
SceneTrigger(maxRetries) ==
  /\ \A c \in BagToSet(sceneCalls) :
       /\ sceneCallResolves(c, TRUE) => sceneCalls' = sceneCalls (-) SetToBag({c})
       /\ sceneCallResolves(c, FALSE)
            => /\ st' = st /\ ref' = ref
               /\ IF RetriesMade(c) < maxRetries
                  THEN BagIn([c EXCEPT !.phase = "wait", !.due = now + SCENE_RETRY_WAIT_MS],
                             sceneCalls')
                  ELSE sceneCalls' = sceneCalls (-) SetToBag({c})
       /\ sceneRetryTimerFires(c)
            => /\ now = c.due
               /\ IF currentUser
                  THEN BagIn(SceneCall(c.scene, c.retries - 1), sceneCalls')
                  ELSE sceneCalls' = sceneCalls (-) SetToBag({c})
  /\ ~currentUser
       => \A d \in BagToSet(sceneCalls') :
            d.phase = "fetch" => CopiesIn(d, sceneCalls') <= CopiesIn(d, sceneCalls)
  /\ \A d \in BagToSet(sceneCalls') : RetriesMade(d) \in 0..maxRetries

\* C29 as stated: the drift scene trigger stops at the first successful call,
\* retries a failed call up to 3 times with a 1 s wait between attempts, makes
\* no call without a user, and changes no state when its retries are used up.
C29_RetriesUpToThreeTimes == [][SceneTrigger(3)]_vars

\* C29: the drift scene trigger makes at most SCENE_RETRIES = 3 attempts in
\* all, the first call and up to 2 retries: it stops at the first successful
\* call, waits 1 s after a failed one, makes no call without a user, and
\* changes no state when its attempts are used up.
C29_AtMostThreeAttempts == [][SceneTrigger(SCENE_RETRIES - 1)]_vars

\* C29: the third attempt of a drift scene trigger is under way, in a session
\* that is drifting and shows no error.
C29_Witness ==
  /\ st.isDrifting /\ st.isSessionActive /\ st.sessionError = "null"
  /\ BagIn([SceneCall("drift", 1) EXCEPT !.phase = "fetch"], sceneCalls)
  /\ now >= 2 * SCENE_RETRY_WAIT_MS

PermissionDenials == {"NotAllowedError", "PermissionDeniedError"}

\* C30: camera acquisition asks with tier 1 (high) first and goes on to the
\* next tier, one at a time up to tier 4 (minimal), only after a failed
\* request, so it makes at most 4 requests; it stops at the first stream
\* handed out; a permission denial on any tier ends it at once, with no
\* further request, and the error shown is the permission text.
C30_TiersInOrderDenialStops ==
  [][ \A o \in CamOwners :
        /\ (CamPc(o) = "tvDelay" /\ CamPc(o)' = "tvTier") => CamTier(o)' = 1
        /\ (CamPc(o) = "tvTier" /\ CamRec(o)' # CamRec(o))
             => /\ CamTier(o) \in 1..CAMERA_TIERS
                /\ CamPc(o)' = "tvTier"
                     => /\ CamTier(o)' = CamTier(o) + 1
                        /\ CamTier(o)' <= CAMERA_TIERS
                        /\ streams' = streams /\ st' = st
                /\ \A c \in PermissionDenials :
                     cameraRequestResolves(o, c)
                       => /\ CamPc(o)' # "tvTier"
                          /\ st'.sessionError = "camera: permission"
                          /\ st'.videoStream = Null /\ ~st'.isVideoOn
                          /\ streams' = streams
                /\ \A c \in {"live", "notLive"} :
                     cameraRequestResolves(o, c) => CamPc(o)' # "tvTier" ]_vars

\* C30: the control panel's camera request was denied: the permission text
\* is shown, no camera is held and no request is under way.
C30_Witness ==
  /\ lastToggle = "acquire" /\ camOps = IdleCam
  /\ st.sessionError = "camera: permission"
  /\ st.videoStream = Null /\ ~st.isVideoOn

\* C31: when the component unmounts, every stream that is live is stopped,
\* the heartbeat's interval is cleared and the realtime channel is removed.
C31_UnmountReleasesEverything ==
  [][ (mounted /\ ~mounted')
        => /\ \A id \in 1..MaxStreams : ~streams'[id].live
           /\ ref'.heartbeatIntervalRef = Null /\ intervalTimers' = {}
           /\ channels' = {} /\ ref'.realtimeChannelRef = NoSession ]_vars

\* C32: when the screen stream the panel holds is ended from the browser's
\* stop-sharing control, screenStream and its mirror become null and
\* isScreenSharing false, for a stream the panel acquired and for one handed
\* over by the permission flow.
C32_StopSharingClearsState ==
  [][ \A id \in 1..MaxStreams :
        (st.screenStream = id /\ screenTrackEnded(id))
          => /\ st'.screenStream = Null /\ ~st'.isScreenSharing
             /\ ref'.screenStreamRef = Null ]_vars

\* C33: with a microphone stream held, toggleMic makes no device request and
\* hands out no stream: it flips the enabled flag of the stream's track and
\* isMicMuted, and two toggles give the mute state back; the track of the
\* stream held is enabled exactly when isMicMuted is false.
C33_ToggleMicFlipsEnabled ==
  [][ /\ (st.micStream # Null /\ toggleMic)
           => /\ micOps' = micOps
              /\ st'.micStream = st.micStream
              /\ st'.isMicMuted = ~st.isMicMuted
              /\ ToggleMicState(st').isMicMuted = st.isMicMuted
              /\ \A id \in 1..MaxStreams :
                   /\ streams'[id].live = streams[id].live
                   /\ id # st.micStream => streams'[id] = streams[id]
      /\ IsActive(streams', st'.micStream)
           => streams'[st'.micStream].enabled = ~st'.isMicMuted ]_vars

\* C33: the microphone of the session is held, live and muted.
C33_Witness ==
  /\ st.isSessionActive /\ st.isMicMuted
  /\ IsActive(streams, st.micStream)
  /\ ~streams[st.micStream].enabled
  /\ micOps = 0

\* C34: a heartbeat evaluation captures from the streams held when the tick
\* fires: its request carries the camera's frame exactly when a camera stream
\* is held then, and the screen's exactly when a screen stream is held then,
\* whatever was held when the heartbeat was started; with neither, it sends
\* nothing.
C34_TickCapturesCurrentStreams ==
  [][ (hbInFlight' # hbInFlight \/ warmupTimers' # warmupTimers) =>
      \A t \in warmupTimers \cup intervalTimers :
        (warmupFires(t, "ok", "ok") \/ intervalFires(t, "ok", "ok"))
          => IF st.videoStream = Null /\ st.screenStream = Null
             THEN hbInFlight' = hbInFlight
             ELSE LET r == hbInFlight'[Len(hbInFlight')]
                  IN /\ Len(hbInFlight') = Len(hbInFlight) + 1
                     /\ r.cameraImage = "blob" <=> st.videoStream # Null
                     /\ r.screenImage = "blob" <=> st.screenStream # Null ]_vars

\* C34: a request is under way with the frame of a screen shared after the
\* session's start and without the camera's, the camera having been turned
\* off after the start.
C34_Witness ==
  /\ st.isSessionActive
  /\ lastToggle = "off" /\ st.videoStream = Null
  /\ st.screenStream # Null /\ streams[st.screenStream].ended
  /\ Len(hbInFlight) = 1
  /\ hbInFlight[1].cameraImage = "null" /\ hbInFlight[1].screenImage = "blob"

\* C35: every session starts focused: in the step that marks a session
\* active isDrifting is false, also for a session started after an earlier
\* one ended while drifting.
C35_SessionStartsFocused ==
  [][ (~st.isSessionActive /\ st'.isSessionActive) => ~st'.isDrifting ]_vars

\* C36: isSessionActive is true exactly when currentSessionId is non-null:
\* the start, the end, the failed start and the session_ended event change
\* the two together.
C36_ActiveIffSessionId ==
  st.isSessionActive <=> st.currentSessionId # NoSession

\* C36: a session that was started has been ended from outside: its
\* heartbeat is still there, and both the flag and the id are cleared.
C36_Witness ==
  /\ st.showControlPanel /\ ends.pc = "idle"
  /\ ref.heartbeatIntervalRef # Null
  /\ ~st.isSessionActive /\ st.currentSessionId = NoSession

\* C37: a heartbeat request is issued only while a session is active, and it
\* carries the id of that session: none is sent for a session ended from
\* outside, and after a new start the requests carry the new id.
C37_HeartbeatOnlyForActiveSession ==
  [][ Len(hbInFlight') > Len(hbInFlight)
        => /\ st.isSessionActive
           /\ hbInFlight'[Len(hbInFlight')].sessionId = st.currentSessionId ]_vars

\* C38: when the session_ended event of a session is delivered after its
\* channel was opened and before startSession has marked it active, the panel
\* does not hold that session as active once startSession has finished.
C38_EndedWhileStartingStaysEnded ==
  [][ \A i \in 1..MaxStarts :
        (starts[i].ended /\ starts[i].pc # "idle" /\ starts'[i].pc = "idle")
          => ~(st'.isSessionActive /\ st'.currentSessionId = starts[i].sid) ]_vars

\* C39: within a drift episode, once the drift notification has been
\* dismissed it is not shown again: while isDrifting stays true, no step sets
\* isDriftAcknowledged back to false, neither the expiry of a grace timer nor
\* a further drift report of the heartbeat.
C39_DismissedStaysDismissed ==
  [][ (st.isDrifting /\ st.isDriftAcknowledged /\ st'.isDrifting)
        => st'.isDriftAcknowledged ]_vars

\* C40: the stream flags, the stream state and the mirrors agree: isVideoOn
\* is true exactly when videoStream is non-null exactly when videoStreamRef is
\* non-null, and the same for isScreenSharing, screenStream, screenStreamRef.
C40_FlagsStateMirrorsAgree ==
  /\ st.isVideoOn <=> st.videoStream # Null
  /\ st.videoStream # Null <=> ref.videoStreamRef # Null
  /\ st.isScreenSharing <=> st.screenStream # Null
  /\ st.screenStream # Null <=> ref.screenStreamRef # Null

\* C40: in a session the camera was turned off from the control panel and
\* the screen is shared: the camera's three values are cleared and the
\* screen's three are set.
C40_Witness ==
  /\ st.isSessionActive /\ lastToggle = "off"
  /\ ~st.isVideoOn /\ st.videoStream = Null /\ ref.videoStreamRef = Null
  /\ st.isScreenSharing /\ st.screenStream # Null
  /\ ref.screenStreamRef = st.screenStream

====
